---- MODULE Spec2Model ----
(***************************************************************************)
(* FlowCytometryTools core containers (core/bases.py, core/containers.py): *)
(* samples with lazily read data/meta, the keyed sample collection and the *)
(* ordered (grid) collection with its position index.                      *)
(*                                                                         *)
(* Python objects are identified by their ID: there is one sample object   *)
(* per ID, and its mutable fields are the functions position, data,        *)
(* datafile, meta, metafile indexed by that ID.  None is the string        *)
(* "None".  A dict is a function whose DOMAIN is its key set.  The order   *)
(* in which Python 2 iterates a dict is not specified: every action that   *)
(* iterates one takes the order as a nondeterministic input.               *)
(***************************************************************************)
EXTENDS Integers, Sequences, FiniteSets, TLC

\* ------------------------------------------------------------------------
\* Bounds of the model
\* ------------------------------------------------------------------------
\* largest number of entries of a dict / iterable passed to one call
MaxBatch == 2

\* ------------------------------------------------------------------------
\* Values
\* ------------------------------------------------------------------------
None == "None"

\* noneval=nan
nan == "nan"

\* sample IDs / collection keys, as character sequences ('A1', 'I1': the
\* 'name' parser puts the second one in row 'I', outside the grid under
\* study and outside the default 8 x 12 grid)
Keys == { <<"A", "1">>, <<"I", "1">> }

\* shape of the ordered collection under study (rows, cols)
shape == <<1, 2>>

\* string.uppercase
uppercase == <<"A", "B", "C", "D", "E", "F", "G", "H", "I", "J", "K", "L", "M",
              "N", "O", "P", "Q", "R", "S", "T", "U", "V", "W", "X", "Y", "Z">>

\* _default_labels('rows') / _default_labels('cols')
row_labels == [i \in 1..shape[1] |-> uppercase[i]]
col_labels == [j \in 1..shape[2] |-> j]

\* positions a caller may propose: valid cells, a bad row, a bad column
PosUniverse == { <<"A", 1>>, <<"A", 2>>, <<"I", 1>>, <<"A", 3>> }

\* the ID of the ordered collection under study
CollID == "pl"

\* the class the collection accepts (_sample_class) and another class
SampleClass == "BaseSample"
OtherClass == "Other"

\* a sample object; an object of another class that has an ID attribute;
\* an object of another class without one (ID <<>>)
SampleObj(k) == [cls |-> SampleClass, ID |-> k]
Objs == { SampleObj(k) : k \in Keys } \cup {[cls |-> OtherClass, ID |-> <<"A", "1">>], [cls |-> OtherClass, ID |-> <<>>]}

\* the empty dict
EmptyDict == <<>>

\* d[k] = v on a dict
Put(d, k, v) == [x \in (DOMAIN d) \cup {k} |-> IF x = k THEN v ELSE d[x]]

\* del d[k]
Del(d, k) == [x \in (DOMAIN d) \ {k} |-> d[x]]

\* a.update(b)
DictUpdate(a, b) == [x \in (DOMAIN a) \cup (DOMAIN b) |-> IF x \in DOMAIN b THEN b[x] ELSE a[x]]

\* all dicts key -> object with at most n keys
ObjDicts(n) == UNION { [D -> Objs] : D \in { X \in SUBSET Keys : Cardinality(X) <= n } }

\* all sequences of objects of length at most n
ObjSeqs(n) == UNION { [1..m -> Objs] : m \in 0..n }

\* all dicts with at most n keys drawn from S and values from T
Dicts(S, T, n) == UNION { [D -> T] : D \in { X \in SUBSET S : Cardinality(X) <= n } }

\* all orders in which a set can be iterated
Orders(S) == { o \in [1..Cardinality(S) -> S] : \A i, j \in DOMAIN o : i # j => o[i] # o[j] }

VARIABLES
    alive,      \* the ordered collection has been constructed
    coll_data,  \* collection.data : key -> object
    positions,  \* collection._positions : key -> (row, col)
    position,   \* sample.position, per sample : collection ID -> (row, col)
    data,       \* sample.data, per sample
    datafile,   \* sample.datafile, per sample
    meta,       \* sample.meta, per sample
    metafile,   \* sample.metafile, per sample
    extracted,  \* plate.extracted : output name -> table
    self_ID,    \* collection.ID
    wells,      \* plate.wells : (row label, column label) -> well
    self_datafiles,  \* plate.datafiles : the files the plate was given
    last        \* the last call: its name, its arguments and its outcome

vars == <<alive, coll_data, positions, position, data, datafile, meta, metafile,
          extracted, self_ID, wells, self_datafiles, last>>
collVars == <<alive, coll_data, positions, position>>
sampleVars == <<data, datafile, meta, metafile>>
otherVars == <<extracted, self_ID, wells, self_datafiles>>

\* the record of a call; every action fills the fields it uses
\* (collides, invalid, wrongtype classify the arguments, see ProposalCollides,
\* ProposalInvalid and HasWrongType; reads and calls are the samples whose
\* reader, respectively the caller's function, the call invoked)
NoCall == [op |-> "", err |-> "", key |-> <<>>,
           collides |-> FALSE, invalid |-> FALSE, wrongtype |-> FALSE,
           applyto |-> "", setdata |-> FALSE, noneval |-> "", defaults |-> FALSE,
           ids |-> {}, allids |-> FALSE, result |-> None, results |-> EmptyDict,
           reads |-> {}, calls |-> {},
           criteria |-> [callable |-> FALSE, all |-> FALSE, keys |-> {}, strs |-> {},
                         nums |-> {}, raises |-> {}],
           target |-> [kind |-> "", map |-> EmptyDict], idarg |-> "None",
           coll |-> [made |-> FALSE, cls |-> "", ID |-> "", data |-> EmptyDict,
                     positions |-> EmptyDict, shape |-> <<0, 0>>],
           first |-> [made |-> FALSE, cls |-> "", ID |-> "", data |-> EmptyDict,
                      positions |-> EmptyDict, shape |-> <<0, 0>>],
           parser |-> "", outputs |-> <<>>,
           format |-> "", dropna |-> FALSE, returned |-> "", table |-> EmptyDict,
           newID |-> "", newdata |-> EmptyDict, datafiles |-> <<>>]

\* ------------------------------------------------------------------------
\* BaseSampleCollection : the mapping and its type check
\* ------------------------------------------------------------------------
\* variant of IsInstance: no type check
IsInstanceAlways(value) == TRUE

\* isinstance(value, self._sample_class)
IsInstance(value) == value.cls = SampleClass

\* __setitem__: the dict after self[key] = value, and the error raised
SetItemResult(D, key, value) ==
    IF ~ IsInstance(value)
    THEN [err |-> "TypeError", D |-> D]
    ELSE [err |-> "", D |-> Put(D, key, value)]

\* MutableMapping.update(other): self[key] = other[key] for key in other,
\* in the order the dict other is iterated; stops at the first error
RECURSIVE UpdateResult(_, _, _)
UpdateResult(D, other, order) ==
    IF order = <<>>
    THEN [err |-> "", D |-> D]
    ELSE LET r == SetItemResult(D, Head(order), other[Head(order)])
         IN IF r.err # "" THEN r ELSE UpdateResult(r.D, other, Tail(order))

\* for s in samples: self[s.ID] = s ; an object without ID attribute
\* raises AttributeError at s.ID
RECURSIVE InsertAllResult(_, _)
InsertAllResult(D, objs) ==
    IF objs = <<>>
    THEN [err |-> "", D |-> D]
    ELSE LET s == Head(objs)
         IN IF s.ID = <<>>
            THEN [err |-> "AttributeError", D |-> D]
            ELSE LET r == SetItemResult(D, s.ID, s)
                 IN IF r.err # "" THEN r ELSE InsertAllResult(r.D, Tail(objs))

\* BaseSampleCollection.__init__(ID, samples): samples is a mapping
\* (kind "mapping", given as dict and iteration order) or an iterable
\* (kind "iterable", given as the sequence of its objects)
CollectionInit(kind, mapping, order, objs) ==
    IF kind = "mapping"
    THEN UpdateResult(EmptyDict, mapping, order)
    ELSE InsertAllResult(EmptyDict, objs)

\* ------------------------------------------------------------------------
\* BaseOrderedCollection : the position index
\* ------------------------------------------------------------------------
\* the elements of a list, as a set
Elems(seq) == { seq[i] : i \in DOMAIN seq }

\* _is_valid_position on a collection with the given labels: row in
\* self.row_labels and col in self.col_labels
IsValidPositionIn(pos, rows, cols) == pos[1] \in Elems(rows) /\ pos[2] \in Elems(cols)

\* _is_valid_position on the collection under study
IsValidPosition(pos) == IsValidPositionIn(pos, row_labels, col_labels)

\* int(s) of a character sequence; -1 stands for the ValueError int() raises
DigitVal == [c \in {"0", "1", "2", "3", "4", "5", "6", "7", "8", "9"} |->
               CASE c = "0" -> 0 [] c = "1" -> 1 [] c = "2" -> 2 [] c = "3" -> 3
                 [] c = "4" -> 4 [] c = "5" -> 5 [] c = "6" -> 6 [] c = "7" -> 7
                 [] c = "8" -> 8 [] c = "9" -> 9]

RECURSIVE IntOfDigits(_, _)
IntOfDigits(s, acc) ==
    IF s = <<>> THEN acc
    ELSE IF Head(s) \notin DOMAIN DigitVal THEN -1
    ELSE IntOfDigits(Tail(s), 10 * acc + DigitVal[Head(s)])

int(s) == IF s = <<>> THEN -1 ELSE IntOfDigits(s, 0)

\* the 'name' parser of _get_ID2position_parser: lambda x: (x[0], int(x[1:]))
\* (err is the IndexError of x[0] or the ValueError of int)
NameParser(x) ==
    IF x = <<>> THEN [err |-> "IndexError", pos |-> <<"", 0>>]
    ELSE IF int(Tail(x)) < 0 THEN [err |-> "ValueError", pos |-> <<"", 0>>]
    ELSE [err |-> "", pos |-> <<Head(x), int(Tail(x))>>]

\* variant of HasCollision: the proposal is not merged over self._positions
HasCollisionProposalOnly(P, proposal) ==
    Cardinality(DOMAIN proposal) # Cardinality({ proposal[k] : k \in DOMAIN proposal })

\* the uniqueness check of set_positions: temp = self._positions.copy();
\* temp.update(positions); len(temp.values()) == len(set(temp.values()))
HasCollision(P, proposal) ==
    LET temp == DictUpdate(P, proposal)
    IN Cardinality(DOMAIN temp) # Cardinality({ temp[k] : k \in DOMAIN temp })

\* variant of SetSamplePosition: the sample keeps the new entry only
SetSamplePositionOnly(SP, sid, cid, pos) == [SP EXCEPT ![sid] = [c \in {cid} |-> pos]]

\* sample._set_position(orderedcollection_id, pos), on the record of all
\* samples' position dicts
SetSamplePosition(SP, sid, cid, pos) == [SP EXCEPT ![sid] = Put(@, cid, pos)]

\* the commit loop of set_positions: for k, pos in positions.iteritems(),
\* in iteration order; P is self._positions, SP the samples' position
\* dicts, D is self.data, cid is self.ID, rows and cols are the labels
RECURSIVE CommitPositionsIn(_, _, _, _, _, _, _, _)
CommitPositionsIn(order, proposal, P, SP, D, cid, rows, cols) ==
    IF order = <<>>
    THEN [err |-> "", P |-> P, SP |-> SP]
    ELSE LET k == Head(order)
             pos == proposal[k]
         IN IF ~ IsValidPositionIn(pos, rows, cols)
            THEN [err |-> "ValueError", P |-> P, SP |-> SP]
            ELSE IF k \notin DOMAIN D
            THEN [err |-> "KeyError", P |-> Put(P, k, pos), SP |-> SP]
            ELSE IF D[k].cls # SampleClass
            THEN [err |-> "AttributeError", P |-> Put(P, k, pos), SP |-> SP]
            ELSE CommitPositionsIn(Tail(order), proposal, Put(P, k, pos),
                                   SetSamplePosition(SP, D[k].ID, cid, pos), D,
                                   cid, rows, cols)

\* the commit loop on the collection under study
CommitPositions(order, proposal, P, SP, D) ==
    CommitPositionsIn(order, proposal, P, SP, D, CollID, row_labels, col_labels)

\* variant of SetPositionsChecked: the uniqueness check runs after the commit
SetPositionsCommitFirst(order, proposal, P, SP, D) ==
    LET r == CommitPositions(order, proposal, P, SP, D)
    IN IF HasCollision(P, proposal) THEN [r EXCEPT !.err = "Exception"] ELSE r

\* set_positions once the dict positions is known (lines 592-604): the
\* uniqueness check, then the commit loop
SetPositionsChecked(order, proposal, P, SP, D) ==
    IF HasCollision(P, proposal)
    THEN [err |-> "Exception", P |-> P, SP |-> SP]
    ELSE CommitPositions(order, proposal, P, SP, D)

\* positions = dict((ID, parser(ID)) for ID in ids) with the 'name' parser;
\* fails when the parser fails on one of the ids
ParsedPositions(ids) ==
    IF \E k \in ids : NameParser(k).err # ""
    THEN [err |-> "ValueError", proposal |-> EmptyDict]
    ELSE [err |-> "", proposal |-> [k \in ids |-> NameParser(k).pos]]

\* the ids a call with positions=None targets: to_list(ids), or
\* self.keys() for ids=None (lines 584-587)
ParserTargets(call, D) == IF call.kind = "mapping" THEN call.ids ELSE DOMAIN D

\* the arguments of a set_positions call: an explicit dict positions, or
\* positions=None with the 'name' parser applied to ids (ids=None: all keys)
SetPositionsCalls ==
    { [kind |-> "positions", positions |-> p, ids |-> {}] : p \in Dicts(Keys, PosUniverse, MaxBatch) }
    \cup { [kind |-> "ids", positions |-> EmptyDict, ids |-> i] :
             i \in { X \in SUBSET Keys : Cardinality(X) <= MaxBatch } }
    \cup { [kind |-> "default", positions |-> EmptyDict, ids |-> {}] }

\* the parser _get_ID2position_parser makes of a mapping, applied to x:
\* parser = lambda x: parser[x] (line 555) rebinds the name parser, which
\* the body reads when it is called, to the lambda itself; subscripting a
\* function raises TypeError, whatever the mapping holds
MappingParser(mapping, x) == [err |-> "TypeError", pos |-> <<"", 0>>]

\* lines 583-591 of set_positions: the dict positions the call works on
\* (a mapping given as parser is held in the field positions of the call)
EffectivePositions(call, D) ==
    IF call.kind = "positions" THEN [err |-> "", proposal |-> call.positions]
    ELSE IF call.kind = "ids" THEN ParsedPositions(call.ids)
    ELSE IF call.kind = "default" THEN ParsedPositions(DOMAIN D)
    ELSE IF \E k \in ParserTargets(call, D) : MappingParser(call.positions, k).err # ""
    THEN [err |-> "TypeError", proposal |-> EmptyDict]
    ELSE [err |-> "",
          proposal |-> [k \in ParserTargets(call, D) |-> MappingParser(call.positions, k).pos]]

\* variant of UnassignedMembers: the final check finds nothing
UnassignedNone(D, P) == {}

\* the members without an entry in the position index (the final check
\* of BaseOrderedCollection.__init__)
UnassignedMembers(D, P) == { k \in DOMAIN D : k \notin DOMAIN P }

\* classification of a call's arguments against the state it is made in
ProposalCollides(P, proposal) ==
    \E a, b \in (DOMAIN P) \cup (DOMAIN proposal) :
        /\ a # b
        /\ (IF a \in DOMAIN proposal THEN proposal[a] ELSE P[a])
             = (IF b \in DOMAIN proposal THEN proposal[b] ELSE P[b])
ProposalInvalid(proposal) ==
    \E k \in DOMAIN proposal :
        \/ \A i \in DOMAIN row_labels : row_labels[i] # proposal[k][1]
        \/ \A j \in DOMAIN col_labels : col_labels[j] # proposal[k][2]
HasWrongType(objset) == \E o \in objset : o.cls # SampleClass

\* ------------------------------------------------------------------------
\* Actions on the ordered collection
\* ------------------------------------------------------------------------
Init ==
    /\ alive = FALSE
    /\ coll_data = EmptyDict
    /\ positions = EmptyDict
    /\ position = [k \in Keys |-> EmptyDict]
    /\ data = [k \in Keys |-> None]
    /\ datafile = [k \in Keys |-> None]
    /\ meta = [k \in Keys |-> None]
    /\ metafile = [k \in Keys |-> None]
    /\ extracted = EmptyDict
    /\ self_ID = CollID
    /\ wells = EmptyDict
    /\ self_datafiles = <<>>
    /\ last = NoCall

\* BaseOrderedCollection.__init__(ID, samples, shape, positions,
\* position_parser='name'), samples a mapping or an iterable of objects
OrderedInit ==
    /\ ~ alive
    /\ \E kind \in {"mapping", "iterable"}, mapping \in ObjDicts(MaxBatch),
          objs \in ObjSeqs(MaxBatch), call \in SetPositionsCalls :
       /\ kind = "mapping" => objs = <<>>
       /\ kind = "iterable" => mapping = EmptyDict
       /\ call.kind # "ids"
       /\ \E morder \in Orders(DOMAIN mapping) :
          LET r0 == CollectionInit(kind, mapping, morder, objs)
              eff == EffectivePositions(call, r0.D)
              call0 == [NoCall EXCEPT !.op = "__init__",
                          !.wrongtype = HasWrongType({mapping[k] : k \in DOMAIN mapping}
                                                     \cup {objs[i] : i \in DOMAIN objs})]
          IN IF r0.err # ""
             THEN /\ last' = [call0 EXCEPT !.err = r0.err]
                  /\ UNCHANGED <<alive, coll_data, positions, position>>
             ELSE IF eff.err # ""
             THEN /\ last' = [call0 EXCEPT !.err = eff.err]
                  /\ UNCHANGED <<alive, coll_data, positions, position>>
             ELSE \E order \in Orders(DOMAIN eff.proposal) :
                  LET r == SetPositionsChecked(order, eff.proposal, EmptyDict, position, r0.D)
                      call1 == [call0 EXCEPT !.collides = ProposalCollides(EmptyDict, eff.proposal),
                                             !.invalid = ProposalInvalid(eff.proposal)]
                  IN IF r.err # ""
                     THEN /\ last' = [call1 EXCEPT !.err = r.err]
                          /\ position' = r.SP
                          /\ UNCHANGED <<alive, coll_data, positions>>
                     ELSE IF UnassignedMembers(r0.D, r.P) # {}
                     THEN /\ last' = [call1 EXCEPT !.err = "Exception"]
                          /\ position' = r.SP
                          /\ UNCHANGED <<alive, coll_data, positions>>
                     ELSE /\ last' = call1
                          /\ alive' = TRUE
                          /\ coll_data' = r0.D
                          /\ positions' = r.P
                          /\ position' = r.SP
    /\ UNCHANGED sampleVars
    /\ UNCHANGED otherVars

\* BaseSampleCollection.__setitem__(key, value)
SetItem ==
    /\ alive
    /\ \E key \in Keys, value \in Objs :
       LET r == SetItemResult(coll_data, key, value)
       IN /\ coll_data' = r.D
          /\ last' = [NoCall EXCEPT !.op = "__setitem__", !.err = r.err, !.key = key,
                                    !.wrongtype = HasWrongType({value})]
    /\ UNCHANGED <<alive, positions, position, sampleVars>>
    /\ UNCHANGED otherVars

\* MutableMapping.update(other) on the collection
Update ==
    /\ alive
    /\ \E other \in ObjDicts(MaxBatch) : \E order \in Orders(DOMAIN other) :
       LET r == UpdateResult(coll_data, other, order)
       IN /\ coll_data' = r.D
          /\ last' = [NoCall EXCEPT !.op = "update", !.err = r.err,
                                    !.wrongtype = HasWrongType({other[k] : k \in DOMAIN other})]
    /\ UNCHANGED <<alive, positions, position, sampleVars>>
    /\ UNCHANGED otherVars

\* BaseSampleCollection.__delitem__(key): del self.data[key]
DelItem ==
    /\ alive
    /\ \E key \in Keys :
       IF key \in DOMAIN coll_data
       THEN /\ coll_data' = Del(coll_data, key)
            /\ last' = [NoCall EXCEPT !.op = "__delitem__", !.key = key]
       ELSE /\ coll_data' = coll_data
            /\ last' = [NoCall EXCEPT !.op = "__delitem__", !.key = key, !.err = "KeyError"]
    /\ UNCHANGED <<alive, positions, position, sampleVars>>
    /\ UNCHANGED otherVars

\* set_positions calls with positions=None and a mapping as parser, applied
\* to ids ("mapping") or to all members, ids=None ("mapping_all")
MappingParserCalls ==
    { [kind |-> k, positions |-> m, ids |-> i] :
        k \in {"mapping", "mapping_all"},
        m \in { [x \in {<<"A", "1">>} |-> <<"A", 1>>],
                [x \in Keys |-> IF x = <<"A", "1">> THEN <<"A", 2>> ELSE <<"A", 1>>] },
        i \in {{}, {<<"A", "1">>}} }

\* BaseOrderedCollection.set_positions(positions, parser='name', ids)
SetPositions ==
    /\ alive
    /\ \E call \in SetPositionsCalls \cup MappingParserCalls :
       LET eff == EffectivePositions(call, coll_data)
           call0 == IF call.kind \in {"mapping", "mapping_all"}
                    THEN [NoCall EXCEPT !.op = "set_positions",
                            !.target = [kind |-> "mapping", map |-> call.positions],
                            !.ids = ParserTargets(call, coll_data)]
                    ELSE [NoCall EXCEPT !.op = "set_positions"]
       IN IF eff.err # ""
          THEN /\ last' = [call0 EXCEPT !.err = eff.err]
               /\ UNCHANGED <<positions, position>>
          ELSE \E order \in Orders(DOMAIN eff.proposal) :
               LET r == SetPositionsChecked(order, eff.proposal, positions, position, coll_data)
               IN /\ positions' = r.P
                  /\ position' = r.SP
                  /\ last' = [call0 EXCEPT !.err = r.err,
                                !.collides = ProposalCollides(positions, eff.proposal),
                                !.invalid = ProposalInvalid(eff.proposal)]
    /\ UNCHANGED <<alive, coll_data, sampleVars>>
    /\ UNCHANGED otherVars

\* the ordered collection: construction, item assignment, update and
\* deletion, position assignment
Spec ==
    Init /\ [][ OrderedInit
              \/ SetItem
              \/ Update
              \/ DelItem
              \/ SetPositions ]_vars

\* ------------------------------------------------------------------------
\* BaseSample : lazily read data and meta
\* ------------------------------------------------------------------------
\* the paths a caller may give as datafile and as metafile
DataFiles == {"f1"}
MetaFiles == {"g1"}

\* parse_fcs(path): the payload and the metadata of a data file (the
\* parser is deterministic: the files do not change); without a path it
\* cannot open a file and raises
FileData == [f \in {"f1", "f2"} |-> IF f = "f1" THEN "p1" ELSE "p2"]
FileMeta == [f \in {"f1", "f2"} |-> IF f = "f1" THEN "m1" ELSE "m2"]
parse_fcs(path) ==
    IF path = None THEN [err |-> "ReadError", meta |-> None, data |-> None]
    ELSE [err |-> "", meta |-> FileMeta[path], data |-> FileData[path]]

\* a payload handed in by the caller
UserData == "u"

\* FCMeasurement.read_data: the data part of parse_fcs(self.datafile)
read_data(dfile) == [err |-> parse_fcs(dfile).err, value |-> parse_fcs(dfile).data]

\* FCMeasurement.read_meta: the metadata of parse_fcs(self.datafile)
read_meta(dfile) == [err |-> parse_fcs(dfile).err, value |-> parse_fcs(dfile).meta]

\* getattr(self, 'read_%s' % name)()
read_attr(name, dfile) == IF name = "data" THEN read_data(dfile) ELSE read_meta(dfile)

\* the caller's function: on a payload, on a sample object (the result
\* tells which sample it was called on)
func(d) == IF d = "p1" THEN "r_p1" ELSE IF d = "u" THEN "r_u" ELSE "r_other"
funcOnSample(sid) == IF sid = <<"A", "1">> THEN "r_A1" ELSE "r_other"

\* the payloads on which the caller's function raises an error of its own
BadPayloads == {UserData, "p2"}
funcRaises(d) == d \in BadPayloads

\* the call func(data) inside apply: the error func raises, or its result
CallFunc(d) ==
    IF funcRaises(d) THEN [err |-> "FuncError", result |-> None]
    ELSE [err |-> "", result |-> func(d)]

\* defaults of apply(func, applyto='data', noneval=nan, setdata=False)
NonevalDefault == nan

\* variant of GetAttrFromFile: reads the file whenever there is one
GetAttrRereads(name, value, path, dfile) ==
    IF path # None
    THEN [err |-> read_attr(name, dfile).err, value |-> read_attr(name, dfile).value, read |-> TRUE]
    ELSE [err |-> "", value |-> value, read |-> FALSE]

\* _get_attr_from_file(name): value is the attribute, path the attribute
\* name+'file', dfile the sample's datafile; the value returned and whether
\* the reader ran
GetAttrFromFile(name, value, path, dfile) ==
    IF value # None
    THEN [err |-> "", value |-> value, read |-> FALSE]
    ELSE IF path # None
    THEN [err |-> read_attr(name, dfile).err, value |-> read_attr(name, dfile).value, read |-> TRUE]
    ELSE [err |-> "", value |-> None, read |-> FALSE]

\* _set_attr_from_file(name, value, path): the attribute (cur before the
\* call) and the attribute name+'file' (curfile before the call) after the
\* call; the reader reads the sample's datafile as it is once the path is
\* stored
SetAttrFromFile(name, value, path, cur, curfile, dfile) ==
    IF value # None
    THEN [err |-> "", value |-> value, file |-> curfile, read |-> FALSE]
    ELSE LET f == IF path # None THEN path ELSE curfile
             r == read_attr(name, IF name = "data" THEN f ELSE dfile)
         IN IF r.err # ""
            THEN [err |-> r.err, value |-> cur, file |-> f, read |-> TRUE]
            ELSE [err |-> "", value |-> r.value, file |-> f, read |-> TRUE]

\* variant of SampleApply: func is called on None when there is no data
SampleApplyCallsFuncOnNone(sid, d, f, applyto, noneval, setdata) ==
    IF applyto = "data"
    THEN IF d # None
         THEN [err |-> CallFunc(d).err, result |-> CallFunc(d).result, data |-> d, read |-> FALSE, called |-> TRUE]
         ELSE IF f = None
         THEN [err |-> CallFunc(d).err, result |-> CallFunc(d).result, data |-> d, read |-> FALSE, called |-> TRUE]
         ELSE [err |-> CallFunc(read_data(f).value).err, result |-> CallFunc(read_data(f).value).result,
               data |-> IF setdata THEN read_data(f).value ELSE d, read |-> TRUE, called |-> TRUE]
    ELSE IF applyto = "sample"
    THEN [err |-> "", result |-> funcOnSample(sid), data |-> d, read |-> FALSE, called |-> TRUE]
    ELSE [err |-> "ValueError", result |-> None, data |-> d, read |-> FALSE, called |-> FALSE]

\* variant of SampleApply: data read for the call is always kept
SampleApplyAlwaysKeeps(sid, d, f, applyto, noneval, setdata) ==
    IF applyto = "data"
    THEN IF d # None
         THEN [err |-> CallFunc(d).err, result |-> CallFunc(d).result, data |-> d, read |-> FALSE, called |-> TRUE]
         ELSE IF f = None
         THEN [err |-> "", result |-> noneval, data |-> d, read |-> FALSE, called |-> FALSE]
         ELSE [err |-> CallFunc(read_data(f).value).err, result |-> CallFunc(read_data(f).value).result,
               data |-> read_data(f).value, read |-> TRUE, called |-> TRUE]
    ELSE IF applyto = "sample"
    THEN [err |-> "", result |-> funcOnSample(sid), data |-> d, read |-> FALSE, called |-> TRUE]
    ELSE [err |-> "ValueError", result |-> None, data |-> d, read |-> FALSE, called |-> FALSE]

\* variant of SampleApply: the file is read even when data is present
SampleApplyRereads(sid, d, f, applyto, noneval, setdata) ==
    IF applyto = "data"
    THEN IF f = None
         THEN IF d # None
              THEN [err |-> CallFunc(d).err, result |-> CallFunc(d).result, data |-> d, read |-> FALSE, called |-> TRUE]
              ELSE [err |-> "", result |-> noneval, data |-> d, read |-> FALSE, called |-> FALSE]
         ELSE [err |-> CallFunc(read_data(f).value).err, result |-> CallFunc(read_data(f).value).result,
               data |-> IF setdata THEN read_data(f).value ELSE d, read |-> TRUE, called |-> TRUE]
    ELSE IF applyto = "sample"
    THEN [err |-> "", result |-> funcOnSample(sid), data |-> d, read |-> FALSE, called |-> TRUE]
    ELSE [err |-> "ValueError", result |-> None, data |-> d, read |-> FALSE, called |-> FALSE]

\* BaseSample.apply(func, applyto, noneval, setdata) on a sample with the
\* given data and datafile: error, returned value, data afterwards,
\* whether the reader ran, whether func was called
SampleApply(sid, d, f, applyto, noneval, setdata) ==
    IF applyto = "data"
    THEN IF d # None
         THEN [err |-> CallFunc(d).err, result |-> CallFunc(d).result, data |-> d, read |-> FALSE, called |-> TRUE]
         ELSE IF f = None
         THEN [err |-> "", result |-> noneval, data |-> d, read |-> FALSE, called |-> FALSE]
         ELSE [err |-> CallFunc(read_data(f).value).err, result |-> CallFunc(read_data(f).value).result,
               data |-> IF setdata THEN read_data(f).value ELSE d, read |-> TRUE, called |-> TRUE]
    ELSE IF applyto = "sample"
    THEN [err |-> "", result |-> funcOnSample(sid), data |-> d, read |-> FALSE, called |-> TRUE]
    ELSE [err |-> "ValueError", result |-> None, data |-> d, read |-> FALSE, called |-> FALSE]

\* the arguments of an apply call; "default" stands for an argument left
\* out (noneval and setdata are varied for applyto='data', where they count)
ApplyArgs ==
    { a \in [applyto : {"default", "sample", "bogus"}, noneval : {"default", "zero"},
             setdata : {"default", "True"}] :
        a.applyto # "default" => (a.noneval = "default" /\ a.setdata = "default") }
ResolveApplyto(a) == IF a = "default" THEN "data" ELSE a
ResolveNoneval(a) == IF a = "default" THEN NonevalDefault ELSE a
ResolveSetdata(a) == IF a = "default" THEN FALSE ELSE (a = "True")
AllDefaults(args) ==
    args.applyto = "default" /\ args.noneval = "default" /\ args.setdata = "default"

\* ------------------------------------------------------------------------
\* Filtering : BaseSampleCollection.filter and the filter_by_* methods
\* ------------------------------------------------------------------------
\* the class of a collection: self._constructor is self.__class__
FlatClass == "BaseSampleCollection"
OrderedClass == "BaseOrderedCollection"

\* no collection object (nothing returned)
NoCollection == [made |-> FALSE, cls |-> "", ID |-> "", data |-> EmptyDict,
                 positions |-> EmptyDict, shape |-> <<0, 0>>]

\* a value handed to a criteria function, tagged with its type: a key, a
\* sample object, a string (a label, a path, a payload, None), a number
KeyVal(k) == [t |-> "key", v |-> k]
ObjVal(o) == [t |-> "obj", v |-> o]
StrVal(x) == [t |-> "str", v |-> x]
NumVal(n) == [t |-> "num", v |-> n]

\* a criteria argument: callable or not; a function is given by the values
\* it holds on (all of them, or the keys and the samples with an ID in keys,
\* the strings in strs, the numbers in nums) and the strings it raises an
\* error of its own on
AlwaysTrue == [callable |-> TRUE, all |-> TRUE, keys |-> {}, strs |-> {}, nums |-> {},
               raises |-> {}]
Selective == [callable |-> TRUE, all |-> FALSE, keys |-> {<<"A", "1">>}, strs |-> {"p1"},
              nums |-> {}, raises |-> BadPayloads]
NotCallable == [callable |-> FALSE, all |-> FALSE, keys |-> {}, strs |-> {}, nums |-> {},
                raises |-> {}]
Criteria == {AlwaysTrue, Selective, NotCallable}

\* lambda x: x in keys / ids / rows / cols, built by the filter_by_* methods
InKeys(keys) == [callable |-> TRUE, all |-> FALSE, keys |-> keys, strs |-> {}, nums |-> {},
                 raises |-> {}]
InStrs(strs) == [callable |-> TRUE, all |-> FALSE, keys |-> {}, strs |-> strs, nums |-> {},
                 raises |-> {}]
InNums(nums) == [callable |-> TRUE, all |-> FALSE, keys |-> {}, strs |-> {}, nums |-> nums,
                 raises |-> {}]

\* _parse_criteria(criteria): the criteria when it is callable, else None
\* (the function falls off its end), which is not callable either
_parse_criteria(criteria) == IF criteria.callable THEN criteria ELSE NotCallable

\* the call fil(x): the TypeError of calling None, the function's own
\* error, or its truth value
CallFil(fil, x) ==
    IF ~ fil.callable THEN [err |-> "TypeError", holds |-> FALSE]
    ELSE IF x.t = "str" /\ x.v \in fil.raises THEN [err |-> "FuncError", holds |-> FALSE]
    ELSE [err |-> "",
          holds |-> \/ fil.all
                    \/ x.t = "key" /\ x.v \in fil.keys
                    \/ x.t = "obj" /\ x.v.ID \in fil.keys
                    \/ x.t = "str" /\ x.v \in fil.strs
                    \/ x.t = "num" /\ x.v \in fil.nums]

\* the applyto argument of filter: 'samples', 'keys', 'data', another
\* string, or a mapping key -> value
ApplytoKind(kind) == [kind |-> kind, map |-> EmptyDict]
ApplytoMapping(m) == [kind |-> "mapping", map |-> m]

\* the value fil is called on for the entry (k, v) of the collection:
\* applyto[k], v, k or v.get_data()
FilterTarget(applyto, k, D, dat, files) ==
    IF applyto.kind = "mapping"
    THEN IF k \in DOMAIN applyto.map
         THEN [err |-> "", x |-> applyto.map[k], read |-> FALSE]
         ELSE [err |-> "KeyError", x |-> StrVal(None), read |-> FALSE]
    ELSE IF applyto.kind = "samples" THEN [err |-> "", x |-> ObjVal(D[k]), read |-> FALSE]
    ELSE IF applyto.kind = "keys" THEN [err |-> "", x |-> KeyVal(k), read |-> FALSE]
    ELSE LET r == GetAttrFromFile("data", dat[D[k].ID], files[D[k].ID], files[D[k].ID])
         IN [err |-> r.err, x |-> StrVal(r.value), read |-> r.read]

\* {k:v for k,v in self.iteritems() if fil(...)}, in iteration order; acc
\* is the dict so far with the samples read and the keys fil was called for
RECURSIVE FilterSelect(_, _, _, _, _, _, _)
FilterSelect(fil, applyto, D, order, dat, files, acc) ==
    IF order = <<>> THEN acc
    ELSE LET k == Head(order)
             tg == FilterTarget(applyto, k, D, dat, files)
             acc1 == [acc EXCEPT !.reads = IF tg.read THEN @ \cup {D[k].ID} ELSE @]
         IN IF tg.err # "" THEN [acc1 EXCEPT !.err = tg.err]
            ELSE LET c == CallFil(fil, tg.x)
                     acc2 == [acc1 EXCEPT !.calls = IF fil.callable THEN @ \cup {k} ELSE @]
                 IN IF c.err # "" THEN [acc2 EXCEPT !.err = c.err]
                    ELSE FilterSelect(fil, applyto, D, Tail(order), dat, files,
                             IF c.holds THEN [acc2 EXCEPT !.samples = Put(@, k, D[k])]
                             ELSE acc2)

\* the part of an iteration order that runs over the keys in S
Restrict(order, S) == SelectSeq(order, LAMBDA k : k \in S)

\* the defaults of BaseOrderedCollection.__init__: shape=(8,12) and the
\* labels _default_labels gives for it
DefaultShape == <<8, 12>>


\* BaseOrderedCollection.__init__(ID, samples) with every other argument
\* left out: shape (8,12), default labels, positions=None with the 'name'
\* parser on the keys; SP is the samples' position dicts, porder the order
\* in which the dicts are iterated
OrderedDefaultInit(ID, samples, porder, SP) ==
    LET r0 == CollectionInit("mapping", samples, porder, <<>>)
        eff == ParsedPositions(DOMAIN r0.D)
        r == CommitPositionsIn(porder, eff.proposal, EmptyDict, SP, r0.D, ID,
                               [i \in 1..DefaultShape[1] |-> uppercase[i]],
                               [j \in 1..DefaultShape[2] |-> j])
    IN IF r0.err # "" THEN [err |-> r0.err, coll |-> NoCollection, SP |-> SP]
       ELSE IF eff.err # "" THEN [err |-> eff.err, coll |-> NoCollection, SP |-> SP]
       ELSE IF HasCollision(EmptyDict, eff.proposal)
       THEN [err |-> "Exception", coll |-> NoCollection, SP |-> SP]
       ELSE IF r.err # "" THEN [err |-> r.err, coll |-> NoCollection, SP |-> r.SP]
       ELSE IF UnassignedMembers(r0.D, r.P) # {}
       THEN [err |-> "Exception", coll |-> NoCollection, SP |-> r.SP]
       ELSE [err |-> "",
             coll |-> [made |-> TRUE, cls |-> OrderedClass, ID |-> ID, data |-> r0.D,
                       positions |-> r.P, shape |-> DefaultShape],
             SP |-> r.SP]

\* self._constructor(ID, samples): the class of the source called with the
\* new ID and the selected samples, nothing else
Construct(cls, ID, samples, porder, SP) ==
    IF cls = OrderedClass THEN OrderedDefaultInit(ID, samples, porder, SP)
    ELSE LET r0 == CollectionInit("mapping", samples, porder, <<>>)
         IN IF r0.err # "" THEN [err |-> r0.err, coll |-> NoCollection, SP |-> SP]
            ELSE [err |-> "",
                  coll |-> [made |-> TRUE, cls |-> FlatClass, ID |-> ID, data |-> r0.D,
                            positions |-> EmptyDict, shape |-> <<0, 0>>],
                  SP |-> SP]

\* the accumulator of FilterSelect before the first entry
FilterStart == [err |-> "", samples |-> EmptyDict, reads |-> {}, calls |-> {}]

\* variant of FilterCall: an error of the criteria function counts as false
FilterSwallowsErrors(cls, selfID, D, criteria, applyto, ID, dat, files, SP, order, porder) ==
    LET fil == [_parse_criteria(criteria) EXCEPT !.raises = {}]
        sel == FilterSelect(fil, applyto, D, order, dat, files, FilterStart)
        c == Construct(cls, IF ID = None THEN selfID \o ".filtered" ELSE ID, sel.samples,
                       Restrict(porder, DOMAIN sel.samples), SP)
    IN IF applyto.kind \notin {"mapping", "samples", "keys", "data"}
       THEN [err |-> "ValueError", coll |-> NoCollection, SP |-> SP, reads |-> {}, calls |-> {}]
       ELSE IF sel.err # ""
       THEN [err |-> sel.err, coll |-> NoCollection, SP |-> SP,
             reads |-> sel.reads, calls |-> sel.calls]
       ELSE [err |-> c.err, coll |-> c.coll, SP |-> c.SP,
             reads |-> sel.reads, calls |-> sel.calls]

\* the end of filter: self._constructor(ID, samples) on the samples selected
FilterBuild(cls, ID, sel, SP, porder) ==
    IF sel.err # ""
    THEN [err |-> sel.err, coll |-> NoCollection, SP |-> SP,
          reads |-> sel.reads, calls |-> sel.calls]
    ELSE Construct(cls, ID, sel.samples, Restrict(porder, DOMAIN sel.samples), SP)
           @@ [reads |-> sel.reads, calls |-> sel.calls]

\* filter(criteria, applyto, ID) on a collection of class cls with ID
\* selfID and data D: the error raised, the collection returned, the
\* samples' position dicts afterwards; order is the iteration order of the
\* source, porder that of the dicts of the new collection
FilterCall(cls, selfID, D, criteria, applyto, ID, dat, files, SP, order, porder) ==
    IF applyto.kind \notin {"mapping", "samples", "keys", "data"}
    THEN [err |-> "ValueError", coll |-> NoCollection, SP |-> SP, reads |-> {}, calls |-> {}]
    ELSE FilterBuild(cls, IF ID = None THEN selfID \o ".filtered" ELSE ID,
                     FilterSelect(_parse_criteria(criteria), applyto, D, order, dat, files,
                                  FilterStart),
                     SP, porder)

\* getattr(v, attr) for the attributes 'ID' and 'datafile'; any other name
\* stands for an attribute the sample does not have
GetAttr(attr, v, files) ==
    IF attr = "ID" THEN [err |-> "", x |-> KeyVal(v.ID)]
    ELSE IF attr = "datafile" THEN [err |-> "", x |-> StrVal(files[v.ID])]
    ELSE [err |-> "AttributeError", x |-> StrVal(None)]

\* filter_by_attr(attr, criteria, ID): applyto = {k: getattr(v, attr)}
FilterByAttrCall(cls, selfID, D, attr, criteria, ID, dat, files, SP, order, porder) ==
    IF \E k \in DOMAIN D : GetAttr(attr, D[k], files).err # ""
    THEN [err |-> "AttributeError", coll |-> NoCollection, SP |-> SP, reads |-> {}, calls |-> {}]
    ELSE FilterCall(cls, selfID, D, criteria,
                    ApplytoMapping([k \in DOMAIN D |-> GetAttr(attr, D[k], files).x]),
                    ID, dat, files, SP, order, porder)

\* the applyto of filter_by_rows (axis 1) and filter_by_cols (axis 2):
\* {k: self._positions[k][axis] for k in self.iterkeys()}
PositionsAlong(axis, D, P) ==
    [k \in DOMAIN D |-> IF axis = 1 THEN StrVal(P[k][1]) ELSE NumVal(P[k][2])]

\* filter_by_rows(rows, ID) / filter_by_cols(cols, ID): the labels given are
\* the ones the lambda accepts; a member without position raises KeyError
FilterByAxisCall(axis, selfID, D, P, labels, ID, dat, files, SP, order, porder) ==
    IF \E k \in DOMAIN D : k \notin DOMAIN P
    THEN [err |-> "KeyError", coll |-> NoCollection, SP |-> SP, reads |-> {}, calls |-> {}]
    ELSE FilterCall(OrderedClass, selfID, D,
                    IF axis = 1 THEN InStrs(labels) ELSE InNums(labels),
                    ApplytoMapping(PositionsAlong(axis, D, P)),
                    ID, dat, files, SP, order, porder)

\* ------------------------------------------------------------------------
\* Construction from files : _assign_IDS_to_datafiles and from_files
\* ------------------------------------------------------------------------
\* the data files a collection may be built from, and their paths
SourceFiles == {"f1", "f2"}
PathOf == [f \in SourceFiles |->
             IF f = "f1" THEN <<"x", "_", "A", "1", ".", "f", "c", "s">>
             ELSE <<"y", "_", "I", "1", ".", "f", "c", "s">>]

\* str.split(sep): cur is the piece being read, acc the pieces before it
RECURSIVE SplitFrom(_, _, _, _)
SplitFrom(x, sep, cur, acc) ==
    IF x = <<>> THEN Append(acc, cur)
    ELSE IF Head(x) = sep THEN SplitFrom(Tail(x), sep, <<>>, Append(acc, cur))
    ELSE SplitFrom(Tail(x), sep, Append(cur, Head(x)), acc)
split(x, sep) == SplitFrom(x, sep, <<>>, <<>>)

\* the parser argument: a mapping file -> ID, a function, 'name',
\* 'number', 'read', or anything else
ParserMappings == { [f \in SourceFiles |-> IF f = "f1" THEN <<"A", "1">> ELSE <<"I", "1">>],
                    [f \in {"f1"} |-> <<"I", "1">>] }
Parsers ==
    { [kind |-> "mapping", map |-> m] : m \in ParserMappings }
    \cup { [kind |-> k, map |-> EmptyDict] : k \in {"callable", "name", "number", "read", "bogus"} }

\* the caller's parser function: it swaps the two wells
CallerParser(f) == IF f = "f1" THEN <<"I", "1">> ELSE <<"A", "1">>

\* get_meta_fields(fields) of the sample of file f: the dict of the fields
\* asked for, with meta.get(field) as values (f1 embeds '$SRC', f2 does
\* not); a key is written with its type
get_meta_fields(f, fields) ==
    [k \in { [type |-> "str", text |-> fields[i]] : i \in DOMAIN fields } |->
       IF f = "f1" /\ k.text = "$SRC" THEN <<"A", "1">> ELSE None]

\* FCMeasurement.ID_from_data(ID_field='$SRC'): get_meta_fields(ID_field)[0]
\* looks the integer 0 up in the dict of fields, and the bare except turns
\* the KeyError into an Exception
ID_from_data(f) ==
    LET d == get_meta_fields(f, <<"$SRC">>)
        key == [type |-> "int", text |-> "0"]
    IN IF key \in DOMAIN d THEN [err |-> "", ID |-> d[key]]
       ELSE [err |-> "Exception", ID |-> <<>>]

\* fparse(dfile) of _assign_IDS_to_datafiles for a supported parser; a
\* number is written as the sequence holding it
fparse(parser, f) ==
    IF parser.kind = "mapping"
    THEN IF f \in DOMAIN parser.map THEN [err |-> "", ID |-> parser.map[f]]
         ELSE [err |-> "KeyError", ID |-> <<>>]
    ELSE IF parser.kind = "callable" THEN [err |-> "", ID |-> CallerParser(f)]
    ELSE IF parser.kind = "name"
    THEN LET a == split(PathOf[f], "_")
         IN [err |-> "", ID |-> split(a[Len(a)], ".")[1]]
    ELSE IF parser.kind = "number"
    THEN LET a == split(PathOf[f], ".")
         IN IF Len(a) < 2 THEN [err |-> "IndexError", ID |-> <<>>]
            ELSE IF int(a[Len(a) - 1]) < 0 THEN [err |-> "ValueError", ID |-> <<>>]
            ELSE [err |-> "", ID |-> <<int(a[Len(a) - 1])>>]
    ELSE ID_from_data(f)

\* d = dict((fparse(dfile), dfile) for dfile in datafiles)
RECURSIVE AssignLoop(_, _, _)
AssignLoop(datafiles, parser, d) ==
    IF datafiles = <<>> THEN [err |-> "", d |-> d]
    ELSE LET r == fparse(parser, Head(datafiles))
         IN IF r.err # "" THEN [err |-> r.err, d |-> EmptyDict]
            ELSE AssignLoop(Tail(datafiles), parser, Put(d, r.ID, Head(datafiles)))

\* variant of _assign_IDS_to_datafiles: an unknown parser is read as 'name'
AssignIDsDefaultsToName(datafiles, parser) ==
    IF parser.kind \in {"mapping", "callable", "name", "number", "read"}
    THEN AssignLoop(datafiles, parser, EmptyDict)
    ELSE AssignLoop(datafiles, [parser EXCEPT !.kind = "name"], EmptyDict)

\* _assign_IDS_to_datafiles(datafiles, parser, sample_class)
_assign_IDS_to_datafiles(datafiles, parser) ==
    IF parser.kind \in {"mapping", "callable", "name", "number", "read"}
    THEN AssignLoop(datafiles, parser, EmptyDict)
    ELSE [err |-> "ValueError", d |-> EmptyDict]

\* ------------------------------------------------------------------------
\* Actions on samples and on a flat collection of them
\* ------------------------------------------------------------------------
\* two samples constructed with or without backing files (readdata=False,
\* no meta read), held by a flat collection under their IDs
InitSample ==
    /\ alive = TRUE
    /\ coll_data = [k \in Keys |-> SampleObj(k)]
    /\ positions = EmptyDict
    /\ position = [k \in Keys |-> EmptyDict]
    /\ data = [k \in Keys |-> None]
    /\ datafile \in [Keys -> DataFiles \cup {None}]
    /\ meta = [k \in Keys |-> None]
    /\ metafile \in [Keys -> MetaFiles \cup {None}]
    /\ extracted = EmptyDict
    /\ self_ID = CollID
    /\ wells = EmptyDict
    /\ self_datafiles = <<>>
    /\ last = NoCall

\* BaseSample.get_data()
GetData ==
    /\ \E sid \in Keys :
       LET r == GetAttrFromFile("data", data[sid], datafile[sid], datafile[sid])
       IN last' = [NoCall EXCEPT !.op = "get_data", !.key = sid, !.err = r.err,
                                 !.result = r.value,
                                 !.reads = IF r.read THEN {sid} ELSE {}]
    /\ UNCHANGED <<collVars, sampleVars>>
    /\ UNCHANGED otherVars

\* BaseSample.get_meta()
GetMeta ==
    /\ \E sid \in Keys :
       LET r == GetAttrFromFile("meta", meta[sid], metafile[sid], datafile[sid])
       IN last' = [NoCall EXCEPT !.op = "get_meta", !.key = sid, !.err = r.err,
                                 !.result = r.value,
                                 !.reads = IF r.read THEN {sid} ELSE {}]
    /\ UNCHANGED <<collVars, sampleVars>>
    /\ UNCHANGED otherVars

\* BaseSample.set_data(data, datafile): a value, a path, or neither (the
\* current file is read again)
SetData ==
    /\ \E sid \in Keys, value \in {None, UserData}, path \in DataFiles \cup {None} :
       /\ value = None \/ path = None
       /\ LET r == SetAttrFromFile("data", value, path, data[sid], datafile[sid], datafile[sid])
          IN /\ data' = [data EXCEPT ![sid] = r.value]
             /\ datafile' = [datafile EXCEPT ![sid] = r.file]
             /\ last' = [NoCall EXCEPT !.op = "set_data", !.key = sid, !.err = r.err,
                                       !.reads = IF r.read THEN {sid} ELSE {}]
    /\ UNCHANGED <<collVars, meta, metafile>>
    /\ UNCHANGED otherVars

\* BaseSample.set_meta(meta, metafile): a path, or neither
SetMeta ==
    /\ \E sid \in Keys, path \in MetaFiles \cup {None} :
       LET r == SetAttrFromFile("meta", None, path, meta[sid], metafile[sid], datafile[sid])
       IN /\ meta' = [meta EXCEPT ![sid] = r.value]
          /\ metafile' = [metafile EXCEPT ![sid] = r.file]
          /\ last' = [NoCall EXCEPT !.op = "set_meta", !.key = sid, !.err = r.err,
                                    !.reads = IF r.read THEN {sid} ELSE {}]
    /\ UNCHANGED <<collVars, data, datafile>>
    /\ UNCHANGED otherVars

\* BaseSample.apply(func, applyto, noneval, setdata)
Apply ==
    /\ \E sid \in Keys, args \in ApplyArgs :
       LET r == SampleApply(sid, data[sid], datafile[sid], ResolveApplyto(args.applyto),
                            ResolveNoneval(args.noneval), ResolveSetdata(args.setdata))
       IN /\ data' = [data EXCEPT ![sid] = r.data]
          /\ last' = [NoCall EXCEPT !.op = "apply", !.key = sid, !.err = r.err,
                        !.applyto = ResolveApplyto(args.applyto),
                        !.noneval = ResolveNoneval(args.noneval),
                        !.setdata = ResolveSetdata(args.setdata),
                        !.defaults = AllDefaults(args),
                        !.result = r.result,
                        !.reads = IF r.read THEN {sid} ELSE {},
                        !.calls = IF r.called THEN {sid} ELSE {}]
    /\ UNCHANGED <<collVars, datafile, meta, metafile>>
    /\ UNCHANGED otherVars

\* BaseSampleCollection.apply(func, ids, applyto, noneval, setdata):
\* dict((i, self[i].apply(func, applyto, noneval, setdata)) for i in ids),
\* order the list ids (ids=None: self.keys()); acc is the result so far
RECURSIVE CollectionApplyResult(_, _, _, _, _, _, _, _)
CollectionApplyResult(D, order, acc, fil, applyto, noneval, setdata, i) ==
    IF i > Len(order) THEN acc
    ELSE IF order[i] \notin DOMAIN D THEN [acc EXCEPT !.err = "KeyError"]
    ELSE LET sid == D[order[i]].ID
             r == SampleApply(sid, acc.data[sid], fil[sid], applyto, noneval, setdata)
             acc1 == [acc EXCEPT !.data = [@ EXCEPT ![sid] = r.data],
                                 !.reads = IF r.read THEN @ \cup {sid} ELSE @,
                                 !.calls = IF r.called THEN @ \cup {sid} ELSE @]
         IN IF r.err # "" THEN [acc1 EXCEPT !.err = r.err]
            ELSE CollectionApplyResult(D, order,
                     [acc1 EXCEPT !.results = Put(@, order[i], r.result)],
                     fil, applyto, noneval, setdata, i + 1)

\* the accumulator of CollectionApplyResult before the first member
ApplyStart(dat) == [err |-> "", results |-> EmptyDict, data |-> dat, reads |-> {}, calls |-> {}]

\* variant of CollectionApplyCall: the caller's noneval is not handed on
CollectionApplyOwnNoneval(D, order, dat, fil, applyto, noneval, setdata) ==
    LET r0 == CollectionApplyResult(D, order, ApplyStart(dat), fil, applyto,
                                    NonevalDefault, setdata, 1)
    IN IF r0.err # "" THEN [r0 EXCEPT !.results = EmptyDict] ELSE r0

\* the outcome of BaseSampleCollection.apply: the dict returned (none when
\* an error is raised), the samples' data afterwards
CollectionApplyCall(D, order, dat, fil, applyto, noneval, setdata) ==
    LET r0 == CollectionApplyResult(D, order, ApplyStart(dat), fil, applyto,
                                    noneval, setdata, 1)
    IN IF r0.err # "" THEN [r0 EXCEPT !.results = EmptyDict] ELSE r0

\* BaseSampleCollection.apply(func, ids, applyto, noneval, setdata) on the
\* flat collection
CollectionApply ==
    /\ alive
    /\ \E idsArg \in {"default", "given"}, given \in SUBSET Keys, args \in ApplyArgs :
       /\ idsArg = "default" => given = {}
       /\ \E order \in Orders(IF idsArg = "default" THEN DOMAIN coll_data ELSE given) :
          LET r == CollectionApplyCall(coll_data, order, data, datafile,
                        ResolveApplyto(args.applyto), ResolveNoneval(args.noneval),
                        ResolveSetdata(args.setdata))
          IN /\ data' = r.data
             /\ last' = [NoCall EXCEPT !.op = "collection_apply", !.err = r.err,
                           !.applyto = ResolveApplyto(args.applyto),
                           !.noneval = ResolveNoneval(args.noneval),
                           !.setdata = ResolveSetdata(args.setdata),
                           !.defaults = (AllDefaults(args) /\ idsArg = "default"),
                           !.allids = (idsArg = "default"),
                           !.ids = { order[i] : i \in DOMAIN order }, !.results = r.results,
                           !.reads = r.reads, !.calls = r.calls]
    /\ UNCHANGED <<collVars, datafile, meta, metafile>>
    /\ UNCHANGED otherVars

\* clear_sample_data(ids), ids given or left out: calls
\* _clear_sample_attr('data', ids=None), that is setattr(x, 'data', None)
\* on every member
ClearSampleData ==
    /\ alive
    /\ \E given \in BOOLEAN, ids \in SUBSET (DOMAIN coll_data) :
       /\ ~ given => ids = DOMAIN coll_data
       /\ data' = [s \in Keys |-> IF \E k \in DOMAIN coll_data : coll_data[k].ID = s
                                  THEN None ELSE data[s]]
       /\ last' = [NoCall EXCEPT !.op = "clear_sample_data", !.ids = ids, !.allids = ~ given,
                     !.calls = { coll_data[k].ID : k \in DOMAIN coll_data }]
    /\ UNCHANGED <<collVars, datafile, meta, metafile>>
    /\ UNCHANGED otherVars

\* clear_sample_meta(ids), ids given or left out: calls
\* _clear_sample_attr('meta', ids=None)
ClearSampleMeta ==
    /\ alive
    /\ \E given \in BOOLEAN, ids \in SUBSET (DOMAIN coll_data) :
       /\ ~ given => ids = DOMAIN coll_data
       /\ meta' = [s \in Keys |-> IF \E k \in DOMAIN coll_data : coll_data[k].ID = s
                                  THEN None ELSE meta[s]]
       /\ last' = [NoCall EXCEPT !.op = "clear_sample_meta", !.ids = ids, !.allids = ~ given,
                     !.calls = { coll_data[k].ID : k \in DOMAIN coll_data }]
    /\ UNCHANGED <<collVars, data, datafile, metafile>>
    /\ UNCHANGED otherVars

\* samples and a flat collection of them: reading, setting, applying,
\* clearing
SpecSample ==
    InitSample /\ [][ GetData
              \/ GetMeta
              \/ SetData
              \/ SetMeta
              \/ Apply
              \/ CollectionApply
              \/ ClearSampleData
              \/ ClearSampleMeta ]_vars

\* ------------------------------------------------------------------------
\* Actions on a flat collection: construction from files, filtering
\* ------------------------------------------------------------------------
\* cls.from_files(ID, datafiles, parser): the IDs of the files, one new
\* sample per ID (its constructor reads the meta data of its file), the
\* collection of these samples, which is the collection under study
FromFiles ==
    /\ ~ alive
    /\ \E S \in SUBSET SourceFiles, parser \in Parsers : \E datafiles \in Orders(S) :
       LET r == _assign_IDS_to_datafiles(datafiles, parser)
           call == [NoCall EXCEPT !.op = "from_files", !.parser = parser.kind, !.err = r.err,
                                  !.datafiles = datafiles]
       IN IF r.err # ""
          THEN /\ last' = call
               /\ UNCHANGED <<collVars, sampleVars>>
          ELSE \E order \in Orders(DOMAIN r.d) :
               LET c == CollectionInit("iterable", EmptyDict, <<>>,
                                       [i \in DOMAIN order |-> SampleObj(order[i])])
               IN /\ alive' = TRUE
                  /\ coll_data' = c.D
                  /\ positions' = EmptyDict
                  /\ position' = [k \in Keys |-> IF k \in DOMAIN r.d THEN EmptyDict ELSE position[k]]
                  /\ data' = [k \in Keys |-> IF k \in DOMAIN r.d THEN None ELSE data[k]]
                  /\ datafile' = [k \in Keys |-> IF k \in DOMAIN r.d THEN r.d[k] ELSE datafile[k]]
                  /\ meta' = [k \in Keys |->
                                IF k \in DOMAIN r.d
                                THEN SetAttrFromFile("meta", None, None, None, None, r.d[k]).value
                                ELSE meta[k]]
                  /\ metafile' = [k \in Keys |-> IF k \in DOMAIN r.d THEN None ELSE metafile[k]]
                  /\ last' = [call EXCEPT !.ids = DOMAIN r.d]
    /\ UNCHANGED otherVars

\* the per-key mappings a caller hands to filter as applyto
CallerMappings == { [k \in Keys |-> StrVal(IF k = <<"A", "1">> THEN "p1" ELSE UserData)],
                    [k \in {<<"A", "1">>} |-> StrVal("p1")] }

\* the ID argument of the filter family: left out, or a name of the
\* caller's (given to a flat collection only, to keep the model small)
IDChoices(cls) == IF cls = FlatClass THEN {None, "sel"} ELSE {None}

\* the arguments of a filter call (ID is varied for the default applyto)
FilterArgs(cls) ==
    { a \in [criteria : Criteria,
             applyto : { ApplytoKind(k) : k \in {"samples", "keys", "data", "bogus"} }
                       \cup { ApplytoMapping(m) : m \in CallerMappings },
             ID : IDChoices(cls)] :
        a.ID # None => a.applyto.kind = "samples" }

\* the record of a call of the filter family
FilterRecord(op, criteria, applyto, ID, r) ==
    [NoCall EXCEPT !.op = op, !.err = r.err, !.criteria = criteria, !.target = applyto,
                   !.idarg = ID, !.coll = r.coll, !.reads = r.reads, !.calls = r.calls]

\* filter(criteria, applyto, ID) on the collection under study, of class cls
FilterOn(cls) ==
    /\ alive
    /\ \E a \in FilterArgs(cls) : \E order, porder \in Orders(DOMAIN coll_data) :
       LET r == FilterCall(cls, CollID, coll_data, a.criteria, a.applyto, a.ID,
                           data, datafile, position, order, porder)
       IN /\ position' = r.SP
          /\ last' = FilterRecord("filter", a.criteria, a.applyto, a.ID, r)
    /\ UNCHANGED <<alive, coll_data, positions, sampleVars, otherVars>>

\* filter_by_key(keys, ID): filter(lambda x: x in keys, applyto='keys', ID)
FilterByKeyOn(cls) ==
    /\ alive
    /\ \E keys \in SUBSET Keys, ID \in IDChoices(cls) :
       \E order, porder \in Orders(DOMAIN coll_data) :
       LET r == FilterCall(cls, CollID, coll_data, InKeys(keys), ApplytoKind("keys"), ID,
                           data, datafile, position, order, porder)
       IN /\ position' = r.SP
          /\ last' = FilterRecord("filter_by_key", InKeys(keys), ApplytoKind("keys"), ID, r)
    /\ UNCHANGED <<alive, coll_data, positions, sampleVars, otherVars>>

\* filter_by_attr(attr, criteria, ID)
FilterByAttrOn(cls) ==
    /\ alive
    /\ \E attr \in {"ID", "datafile", "bogus"}, criteria \in Criteria :
       \E order, porder \in Orders(DOMAIN coll_data) :
       LET r == FilterByAttrCall(cls, CollID, coll_data, attr, criteria, None,
                                 data, datafile, position, order, porder)
           applyto == IF attr = "bogus" THEN ApplytoMapping(EmptyDict)
                      ELSE ApplytoMapping([k \in DOMAIN coll_data |->
                                             GetAttr(attr, coll_data[k], datafile).x])
       IN /\ position' = r.SP
          /\ last' = FilterRecord("filter_by_attr", criteria, applyto, None, r)
    /\ UNCHANGED <<alive, coll_data, positions, sampleVars, otherVars>>

\* filter_by_IDs(ids, ID): filter_by_attr('ID', lambda x: x in ids, ID)
FilterByIDsOn(cls) ==
    /\ alive
    /\ \E ids \in SUBSET Keys : \E order, porder \in Orders(DOMAIN coll_data) :
       LET r == FilterByAttrCall(cls, CollID, coll_data, "ID", InKeys(ids), None,
                                 data, datafile, position, order, porder)
           applyto == ApplytoMapping([k \in DOMAIN coll_data |->
                                        GetAttr("ID", coll_data[k], datafile).x])
       IN /\ position' = r.SP
          /\ last' = FilterRecord("filter_by_IDs", InKeys(ids), applyto, None, r)
    /\ UNCHANGED <<alive, coll_data, positions, sampleVars, otherVars>>

\* .filter(always true) called on what a first filter call r1 gave: the
\* second call's outcome and the collection the first call returned
FilterChain(cls, r1, dat, files, order, porder) ==
    IF r1.err # "" THEN [call |-> r1, first |-> NoCollection]
    ELSE [call |-> FilterCall(cls, r1.coll.ID, r1.coll.data, AlwaysTrue,
                              ApplytoKind("samples"), None, dat, files, r1.SP,
                              Restrict(order, DOMAIN r1.coll.data),
                              Restrict(porder, DOMAIN r1.coll.data)),
          first |-> r1.coll]

\* collection.filter(criteria, applyto, ID).filter(always true): the second
\* filter is called on the collection the first one returns
FilterTwiceOn(cls) ==
    /\ alive
    /\ \E a \in FilterArgs(cls) : \E order, porder \in Orders(DOMAIN coll_data) :
       LET c == FilterChain(cls,
                            FilterCall(cls, CollID, coll_data, a.criteria, a.applyto, a.ID,
                                       data, datafile, position, order, porder),
                            data, datafile, order, porder)
       IN /\ position' = c.call.SP
          /\ last' = [FilterRecord("filter_twice", a.criteria, a.applyto, a.ID, c.call)
                        EXCEPT !.first = c.first]
    /\ UNCHANGED <<alive, coll_data, positions, sampleVars, otherVars>>

\* a flat collection: construction from files, applying, filtering
SpecFlat ==
    Init /\ [][ FromFiles
              \/ CollectionApply
              \/ FilterOn(FlatClass)
              \/ FilterByKeyOn(FlatClass)
              \/ FilterByAttrOn(FlatClass)
              \/ FilterByIDsOn(FlatClass)
              \/ FilterTwiceOn(FlatClass) ]_vars

\* ------------------------------------------------------------------------
\* Actions on the ordered collection: filtering
\* ------------------------------------------------------------------------
\* the labels a caller may ask filter_by_rows and filter_by_cols for

\* filter_by_rows(rows, ID) (axis 1) and filter_by_cols(cols, ID) (axis 2)
FilterByAxis(op, axis, choices) ==
    /\ alive
    /\ \E labels \in SUBSET choices, ID \in IDChoices(OrderedClass) :
       \E order, porder \in Orders(DOMAIN coll_data) :
       LET r == FilterByAxisCall(axis, CollID, coll_data, positions, labels, ID,
                                 data, datafile, position, order, porder)
           applyto == IF \E k \in DOMAIN coll_data : k \notin DOMAIN positions
                      THEN ApplytoMapping(EmptyDict)
                      ELSE ApplytoMapping(PositionsAlong(axis, coll_data, positions))
       IN /\ position' = r.SP
          /\ last' = FilterRecord(op, IF axis = 1 THEN InStrs(labels) ELSE InNums(labels),
                                  applyto, ID, r)
    /\ UNCHANGED <<alive, coll_data, positions, sampleVars, otherVars>>

\* the ordered collection: construction, filtering
SpecGrid ==
    Init /\ [][ OrderedInit
              \/ FilterOn(OrderedClass)
              \/ FilterByKeyOn(OrderedClass)
              \/ FilterByAttrOn(OrderedClass)
              \/ FilterByIDsOn(OrderedClass)
              \/ FilterTwiceOn(OrderedClass)
              \/ FilterByAxis("filter_by_rows", 1, {"A", "B"})
              \/ FilterByAxis("filter_by_cols", 2, {1, 2}) ]_vars

\* ------------------------------------------------------------------------
\* Properties of the ordered collection (checked under Spec)
\* ------------------------------------------------------------------------
\* the labels of the grid, as sets
RowLabelSet == { row_labels[i] : i \in DOMAIN row_labels }
ColLabelSet == { col_labels[j] : j \in DOMAIN col_labels }

\* C1: a set_positions call whose proposal, merged over the existing
\* position index, makes two IDs share a position fails, and the position
\* index after the call is the one before it
C1_CollisionLeavesIndexUnchanged ==
    [][ (last'.op = "set_positions" /\ last'.collides)
          => (last'.err # "" /\ positions' = positions) ]_vars

\* a colliding proposal was rejected while the index held an entry
C1_Witness ==
    /\ last.op = "set_positions"
    /\ last.collides
    /\ last.err = "Exception"
    /\ positions # EmptyDict

\* C2: a set_positions call whose batch holds a position outside
\* row_labels x col_labels fails and writes no entry of the batch, neither
\* to the position index nor to a sample's own position record (stated
\* for the calls that the validity check rejects)
C2_InvalidBatchWritesNothing ==
    [][ (last'.op = "set_positions" /\ last'.invalid /\ last'.err = "ValueError")
          => (positions' = positions /\ position' = position) ]_vars

\* C3: after a set_positions call that succeeds, no two IDs of the position
\* index share a position and every stored position lies on the grid
C3_SuccessInjectiveAndValid ==
    (last.op = "set_positions" /\ last.err = "")
      => /\ \A a, b \in DOMAIN positions : positions[a] = positions[b] => a = b
         /\ \A k \in DOMAIN positions :
              positions[k][1] \in RowLabelSet /\ positions[k][2] \in ColLabelSet

\* a successful call left both cells of the grid occupied
C3_Witness ==
    /\ last.op = "set_positions"
    /\ last.err = ""
    /\ Cardinality(DOMAIN positions) = 2
    /\ { positions[k] : k \in DOMAIN positions } = { <<"A", 1>>, <<"A", 2>> }

\* C4: after del collection[k] the position index has no entry for k
C4_DeleteRemovesPosition ==
    (last.op = "__delitem__" /\ last.err = "") => last.key \notin DOMAIN positions

\* C5: a construction that succeeds leaves every member with an entry in
\* the position index (a construction that would leave a member without
\* one fails)
C5_ConstructedMembersHavePositions ==
    (last.op = "__init__" /\ last.err = "")
      => /\ alive
         /\ \A k \in DOMAIN coll_data : k \in DOMAIN positions

\* a collection with members was constructed
C5_Witness ==
    /\ last.op = "__init__"
    /\ last.err = ""
    /\ alive
    /\ Cardinality(DOMAIN coll_data) = 2

\* every member is of the declared sample type
TypeInv == \A k \in DOMAIN coll_data : coll_data[k].cls = SampleClass

\* C6 as stated: every member is of the declared sample type, and an item
\* assignment, update or construction given a value of another type fails
\* with a type error and leaves the members mapping unchanged
C6_WrongTypeFailsUnchanged ==
    /\ []TypeInv
    /\ [][ (last'.op \in {"__setitem__", "update", "__init__"} /\ last'.wrongtype)
             => (last'.err = "TypeError" /\ coll_data' = coll_data) ]_vars

\* C6 as amended: every member is of the declared sample type, and a call
\* given a value of another type fails: item assignment with a type error
\* and the members mapping unchanged, update with a type error, construction
\* with a type error or an attribute error and no collection
C6_WrongTypeNeverStored ==
    /\ []TypeInv
    /\ [][ last'.wrongtype
             => /\ last'.op = "__setitem__"
                     => (last'.err = "TypeError" /\ coll_data' = coll_data)
                /\ last'.op = "update" => last'.err = "TypeError"
                /\ last'.op = "__init__"
                     => (last'.err \in {"TypeError", "AttributeError"} /\ ~ alive') ]_vars

\* an update given a value of another type failed on a collection that
\* has members
C6_Witness ==
    /\ last.op = "update"
    /\ last.wrongtype
    /\ last.err = "TypeError"
    /\ coll_data # EmptyDict

\* ------------------------------------------------------------------------
\* Properties of samples (checked under SpecSample)
\* ------------------------------------------------------------------------
\* a get on an attribute with cached value v and source f, whose reader
\* returns payload: the cached value without a read; else the reader's
\* result by one read; else None without a read
ReadsLazily(v, f, payload, call) ==
    /\ v # None => (call.result = v /\ call.reads = {} /\ call.err = "")
    /\ (v = None /\ f # None)
         => /\ call.reads = {call.key}
            /\ payload # None => (call.result = payload /\ call.err = "")
    /\ (v = None /\ f = None) => (call.result = None /\ call.reads = {} /\ call.err = "")

\* what the reader of the sample's file returns, None if there is no file
PayloadOf(content, dfile) == IF dfile = None THEN None ELSE content[dfile]

\* C7: get_data (get_meta) returns the cached value without invoking the
\* reader when it is present, else the reader's result when a source is
\* set, else None without invoking the reader, and leaves the samples'
\* data, meta and sources unchanged
C7_GetReadsLazilyAndKeepsState ==
    [][ /\ last'.op = "get_data"
             => /\ ReadsLazily(data[last'.key], datafile[last'.key],
                               PayloadOf(FileData, datafile[last'.key]), last')
                /\ UNCHANGED sampleVars
        /\ last'.op = "get_meta"
             => /\ ReadsLazily(meta[last'.key], metafile[last'.key],
                               PayloadOf(FileMeta, datafile[last'.key]), last')
                /\ UNCHANGED sampleVars ]_vars

\* a get_data read through the source and the data stayed absent
C7_Witness ==
    /\ last.op = "get_data"
    /\ last.reads = {last.key}
    /\ last.result = "p1"
    /\ data[last.key] = None
    /\ datafile[last.key] = "f1"

\* C8: apply with target 'data' on a sample with neither data nor datafile
\* returns the caller's noneval, raises nothing, and invokes neither the
\* function nor the reader
C8_MissingDataGivesNoneval ==
    [][ ( /\ last'.op = "apply"
          /\ last'.applyto = "data"
          /\ data[last'.key] = None
          /\ datafile[last'.key] = None )
          => ( /\ last'.err = ""
               /\ last'.result = last'.noneval
               /\ last'.calls = {}
               /\ last'.reads = {} ) ]_vars

\* an apply on a sample without data and source returned the caller's 'zero'
C8_Witness ==
    /\ last.op = "apply"
    /\ last.applyto = "data"
    /\ last.noneval = "zero"
    /\ last.result = "zero"
    /\ last.calls = {}
    /\ data[last.key] = None
    /\ datafile[last.key] = None

\* the samples an apply call works on
Targets(call) == IF call.op = "apply" THEN {call.key} ELSE call.ids

\* C9: when an apply with target 'data' reads a sample's payload, the data
\* is kept afterwards exactly if setdata is true; with the default
\* arguments (sample apply, collection apply over all members) a sample
\* without data before the call is without data after it
C9_ReadDataKeptIffSetdata ==
    [][ /\ ( /\ last'.op \in {"apply", "collection_apply"}
             /\ last'.applyto = "data"
             /\ last'.err = "" )
          => \A s \in Targets(last') :
               (data[s] = None /\ datafile[s] # None)
                 => /\ (data'[s] # None) <=> last'.setdata
                    /\ last'.setdata => data'[s] = FileData[datafile[s]]
        /\ ( /\ last'.op \in {"apply", "collection_apply"}
             /\ last'.defaults )
          => \A s \in Keys : data[s] = None => data'[s] = None ]_vars

\* a collection apply with the default arguments read both samples and
\* kept no data
C9_Witness ==
    /\ last.op = "collection_apply"
    /\ last.defaults
    /\ last.reads = Keys
    /\ \A s \in Keys : data[s] = None

\* C10: two successive get_data calls on a sample without data and with a
\* source return equal values; while a sample's data is present no
\* get_data and no apply invokes the reader for it
C10_ReadsRepeatAndCacheIsUsed ==
    [][ /\ ( /\ last.op = "get_data"
             /\ last'.op = "get_data"
             /\ last'.key = last.key
             /\ data[last.key] = None
             /\ datafile[last.key] # None )
          => last'.result = last.result
        /\ last'.op \in {"get_data", "apply", "collection_apply"}
          => \A s \in Keys : data[s] # None => s \notin last'.reads ]_vars

\* an apply ran the function on data kept from the source, without a read
C10_Witness ==
    /\ last.op = "apply"
    /\ last.applyto = "data"
    /\ data[last.key] = "p1"
    /\ datafile[last.key] = "f1"
    /\ last.calls = {last.key}
    /\ last.reads = {}

\* the payload Sample.apply hands to the caller's function for sample s
\* with target 'data': the data held, else the payload of the data file
PayloadFor(s) == IF data[s] # None THEN data[s] ELSE FileData[datafile[s]]

\* C11: a collection apply that returns, returns a mapping whose key set is
\* exactly the ids it was called on (every key when ids is left out); the
\* value under a key is what Sample.apply gives on that member with the same
\* target, none_value and persist flag: the function's result on the sample,
\* or on its data (held or read from its file, read data being kept exactly
\* when the persist flag is set), and none_value for a member with neither
\* data nor a data file
C11_CollectionApplyMapsIdsToSampleApply ==
    [][ (last'.op = "collection_apply" /\ last'.err = "") =>
          /\ DOMAIN last'.results = last'.ids
          /\ last'.allids => last'.ids = DOMAIN coll_data
          /\ \A i \in last'.ids :
               /\ last'.applyto = "sample" =>
                    (last'.results[i] = funcOnSample(i) /\ data'[i] = data[i])
               /\ (last'.applyto = "data" /\ data[i] = None /\ datafile[i] = None) =>
                    (last'.results[i] = last'.noneval /\ data'[i] = None)
               /\ (last'.applyto = "data" /\ ~ (data[i] = None /\ datafile[i] = None)) =>
                    /\ last'.results[i] = func(PayloadFor(i))
                    /\ data'[i] = IF data[i] = None /\ last'.setdata
                                  THEN FileData[datafile[i]] ELSE data[i]
          /\ \A s \in Keys \ last'.ids : data'[s] = data[s] ]_vars

\* a collection apply over both members with a none_value of the caller's,
\* one member read from its file and the other without data or file
C11_Witness ==
    /\ last.op = "collection_apply" /\ last.err = ""
    /\ last.ids = Keys /\ last.noneval = "zero"
    /\ \E i, j \in Keys : last.results[i] = "zero" /\ last.results[j] = "r_p1"

\* ------------------------------------------------------------------------
\* BaseOrderedCollection.apply : the results as a table of the grid
\* ------------------------------------------------------------------------
\* pandas isnull: the values dropna counts as missing
isnull(v) == v \in {nan, None}

\* df.dropna(axis=0, how='all').dropna(axis=1, how='all'): rows whose cells
\* are all missing are removed, then columns likewise
dropna_all(df) ==
    LET rows == { pos[1] : pos \in DOMAIN df }
        cols == { pos[2] : pos \in DOMAIN df }
        keptRows == { r \in rows : \E c \in cols : ~ isnull(df[<<r, c>>]) }
        keptCols == { c \in cols : \E r \in keptRows : ~ isnull(df[<<r, c>>]) }
    IN [pos \in keptRows \X keptCols |-> df[pos]]

\* the loop of _dict2DF: df[j][i] = res for i,j = self._positions[k]
RECURSIVE Dict2DFLoop(_, _, _, _)
Dict2DFLoop(order, d, P, df) ==
    IF order = <<>> THEN [err |-> "", df |-> df]
    ELSE LET k == Head(order)
         IN IF k \notin DOMAIN P \/ P[k] \notin DOMAIN df
            THEN [err |-> "KeyError", df |-> df]
            ELSE Dict2DFLoop(Tail(order), d, P, [df EXCEPT ![P[k]] = d[k]])

\* variant of _dict2DF: the frame starts filled with nan, not noneval
Dict2DFNanFilled(d, noneval, dropna, P, order) ==
    LET r == Dict2DFLoop(order, d, P,
                         [pos \in Elems(row_labels) \X Elems(col_labels) |-> nan])
    IN IF r.err # "" THEN r
       ELSE IF dropna THEN [err |-> "", df |-> dropna_all(r.df)]
       ELSE r

\* _dict2DF(d, noneval, dropna=False), d iterated in the given order
_dict2DF(d, noneval, dropna, P, order) ==
    LET r == Dict2DFLoop(order, d, P,
                         [pos \in Elems(row_labels) \X Elems(col_labels) |-> noneval])
    IN IF r.err # "" THEN r
       ELSE IF dropna THEN [err |-> "", df |-> dropna_all(r.df)]
       ELSE r

\* BaseOrderedCollection.apply(func, ids, applyto, output_format, noneval,
\* setdata, dropna): the flat apply, then the result as it is or as a table
\* (dropna is not handed to _dict2DF); output_format is a string literal of
\* the caller, tested with `is` against the literals 'dict' and 'DataFrame',
\* which for interned literals is equality of the text
OrderedApplyCall(D, P, order, dorder, dat, fil, applyto, format, noneval, setdata, dropna) ==
    LET r == CollectionApplyCall(D, order, dat, fil, applyto, noneval, setdata)
        none == [err |-> r.err, returned |-> "", results |-> EmptyDict, table |-> EmptyDict,
                 data |-> r.data]
    IN IF r.err # "" THEN none
       ELSE IF format = "dict"
       THEN [none EXCEPT !.returned = "dict", !.results = r.results]
       ELSE IF format = "DataFrame"
       THEN LET t == _dict2DF(r.results, noneval, FALSE, P, dorder)
            IN IF t.err # "" THEN [none EXCEPT !.err = t.err]
               ELSE [none EXCEPT !.returned = "table", !.table = t.df]
       ELSE [none EXCEPT !.err = "Exception"]

\* the arguments of an apply call on the ordered collection (no sample of
\* it has data or a data file, so func is applied to the samples or every
\* result is noneval)
TableArgs ==
    { a \in [applyto : {"default", "sample"}, noneval : {"default", "zero"},
             setdata : {"default"}] : a.applyto = "default" => a.noneval = "default" }

\* apply(...) on the ordered collection
OrderedApply ==
    /\ alive
    /\ \E idsArg \in {"default", "given"}, given \in { {}, {<<"A", "1">>} }, args \in TableArgs,
          fmt \in {"DataFrame", "dict", "bogus"}, dropna \in BOOLEAN :
       /\ idsArg = "default" <=> given = {}
       /\ dropna => fmt = "DataFrame"
       /\ \E order \in Orders(IF idsArg = "default" THEN DOMAIN coll_data ELSE given) :
          \E dorder \in Orders(Elems(order)) :
          LET r == OrderedApplyCall(coll_data, positions, order, dorder, data, datafile,
                        ResolveApplyto(args.applyto), fmt,
                        ResolveNoneval(args.noneval), ResolveSetdata(args.setdata), dropna)
          IN /\ data' = r.data
             /\ last' = [NoCall EXCEPT !.op = "ordered_apply", !.err = r.err,
                           !.applyto = ResolveApplyto(args.applyto),
                           !.noneval = ResolveNoneval(args.noneval),
                           !.setdata = ResolveSetdata(args.setdata),
                           !.allids = (idsArg = "default"),
                           !.ids = Elems(order), !.format = fmt,
                           !.dropna = dropna, !.returned = r.returned,
                           !.results = r.results, !.table = r.table]
    /\ UNCHANGED <<collVars, datafile, meta, metafile, otherVars>>

\* the ordered collection with apply: construction, item assignment, apply
SpecTable ==
    Init /\ [][ OrderedInit
              \/ SetItem
              \/ OrderedApply ]_vars

\* ------------------------------------------------------------------------
\* BasePlate : one well per cell, and the registry of extracted tables
\* ------------------------------------------------------------------------
\* the plate under study: shape (2,1) with row_labels ['A', 'I'] and the
\* default column labels
PlateShape == <<2, 1>>
PlateRows == <<"A", "I">>
PlateCols == [j \in 1..PlateShape[2] |-> j]
PlateCells == { <<r, c>> : r \in Elems(PlateRows), c \in Elems(PlateCols) }

\* str(n) of a natural number, as a character sequence
RECURSIVE str(_)
str(n) ==
    LET digit == <<"0", "1", "2", "3", "4", "5", "6", "7", "8", "9">>
    IN IF n < 10 THEN <<digit[n + 1]>> ELSE str(n \div 10) \o <<digit[(n % 10) + 1]>>

\* _make_wells: the well of the cell (rlabel, clabel) has the ID
\* '%s%s' % (rlabel, clabel)
WellID(pos) == <<pos[1]>> \o str(pos[2])

\* variant of _make_wells: the grid holds a well named after its row only
MakeWellsRowNamed(rlabels, clabels, j, acc) ==
    [wells |-> [pos \in { <<rlabels[i], clabels[c]>> :
                            i \in DOMAIN rlabels, c \in DOMAIN clabels } |->
                  SampleObj(<<pos[1]>>)],
     wells_d |-> [k \in { WellID(<<rlabels[i], clabels[c]>>) :
                            i \in DOMAIN rlabels, c \in DOMAIN clabels } |->
                    SampleObj(k)]]

\* _make_wells(row_labels, col_labels): row by row and column by column a
\* well is constructed, put in the grid and registered under its ID (j is
\* the column reached in the first of the rows left, acc what is made)
RECURSIVE _make_wells(_, _, _, _)
_make_wells(rlabels, clabels, j, acc) ==
    IF rlabels = <<>> THEN acc
    ELSE IF j > Len(clabels) THEN _make_wells(Tail(rlabels), clabels, 1, acc)
    ELSE LET pos == <<Head(rlabels), clabels[j]>>
             well == SampleObj(WellID(pos))
         IN _make_wells(rlabels, clabels, j + 1,
                        [wells |-> Put(acc.wells, pos, well),
                         wells_d |-> Put(acc.wells_d, well.ID, well)])

\* _datafile_wellID_parser(datafile, parser) on a plate with the grid W
\* of the shape PlateShape
_datafile_wellID_parser(W, f, parser) ==
    IF parser = "callable" THEN [err |-> "", ID |-> CallerParser(f)]
    ELSE IF parser = "name"
    THEN LET a == split(PathOf[f], "_")
         IN [err |-> "", ID |-> split(a[Len(a)], ".")[1]]
    ELSE IF parser = "number"
    THEN LET a == split(PathOf[f], ".")
             number == int(a[Len(a) - 1])
         IN IF Len(a) < 2 THEN [err |-> "IndexError", ID |-> <<>>]
            ELSE IF number < 0 \/ number >= PlateShape[1] * PlateShape[2]
            THEN [err |-> "ValueError", ID |-> <<>>]
            ELSE [err |-> "",
                  ID |-> W[<<PlateRows[(number \div PlateShape[2]) + 1],
                             PlateCols[(number % PlateShape[2]) + 1]>>].ID]
    ELSE IF parser = "read" THEN ID_from_data(f)
    ELSE [err |-> "ValueError", ID |-> <<>>]

\* the guessed assignments: assignments[ID] = datafile, file by file
RECURSIVE GuessAssignments(_, _, _, _)
GuessAssignments(W, files, parser, acc) ==
    IF files = <<>> THEN [err |-> "", assignments |-> acc]
    ELSE LET r == _datafile_wellID_parser(W, Head(files), parser)
         IN IF r.err # "" THEN [err |-> r.err, assignments |-> acc]
            ELSE GuessAssignments(W, Tail(files), parser, Put(acc, r.ID, Head(files)))

\* assign_datafiles_to_wells(assignments, parser) on a plate with the index
\* wells_d, the grid W and the files given: the error raised and the wells'
\* datafile afterwards (get_wells raises KeyError before any well is set);
\* assignments is the mapping given, or not given (None)
assign_datafiles_to_wells(wells_d, W, files, fil, assignments, parser) ==
    LET g == IF ~ assignments.given THEN GuessAssignments(W, files, parser, EmptyDict)
             ELSE [err |-> "", assignments |-> assignments.map]
    IN IF g.err # "" THEN [err |-> g.err, assignments |-> EmptyDict, datafile |-> fil]
       ELSE IF \E k \in DOMAIN g.assignments : k \notin DOMAIN wells_d
       THEN [err |-> "KeyError", assignments |-> g.assignments, datafile |-> fil]
       ELSE [err |-> "", assignments |-> g.assignments,
             datafile |-> [k \in DOMAIN fil |->
                             IF k \in DOMAIN g.assignments THEN g.assignments[k] ELSE fil[k]]]

\* the positional parameters of BaseSample.apply after self
ApplyParams == <<"func", "applyto", "noneval", "setdata">>

\* the call well.apply(*args) with positional arguments: Python raises
\* TypeError when there are more of them than parameters, else binds them
\* in order (func itself is not part of the model's SampleApply)
CallApply(sid, d, f, args) ==
    IF Len(args) > Len(ApplyParams)
    THEN [err |-> "TypeError", result |-> None, data |-> d, read |-> FALSE, called |-> FALSE]
    ELSE SampleApply(sid, d, f, args[2], args[3], args[4])

\* a cell of the table result: a scalar, or a sequence of components
Scalar(x) == [seq |-> FALSE, v |-> <<x>>]
Components(xs) == [seq |-> TRUE, v |-> xs]

\* noneval, or [noneval]*nout
NonevalCell(noneval, nout) ==
    IF nout = 1 THEN Scalar(noneval) ELSE Components([i \in 1..nout |-> noneval])

\* what the caller's function returns for nout outputs: its value when
\* nout is 1, else the sequence of the value's components
funcOutputs(res, nout) ==
    IF nout = 1 THEN Scalar(res) ELSE Components([i \in 1..nout |-> res \o (IF i = 1 THEN "[0]" ELSE "[1]")])

\* applied_func(well) of BasePlate.apply: the cell of the well
AppliedFunc(sid, d, f, applyto, noneval, well_ids, setdata, nout) ==
    IF sid \notin well_ids
    THEN [err |-> "", cell |-> NonevalCell(noneval, nout), data |-> d]
    ELSE LET r == CallApply(sid, d, f, <<"func", applyto, noneval, nout, setdata>>)
         IN IF r.err # "" THEN [err |-> r.err, cell |-> Scalar(None), data |-> r.data]
            ELSE IF r.result # None
            THEN [err |-> "",
                  cell |-> IF r.called THEN funcOutputs(r.result, nout) ELSE Scalar(r.result),
                  data |-> r.data]
            ELSE [err |-> "", cell |-> NonevalCell(noneval, nout), data |-> r.data]

\* the cells in the order applymap visits them: column by column
PlateCellOrder ==
    [k \in 1..(PlateShape[1] * PlateShape[2]) |->
       <<PlateRows[((k - 1) % PlateShape[1]) + 1], PlateCols[((k - 1) \div PlateShape[1]) + 1]>>]

\* self.wells.applymap(applied_func), cell by cell in the order given
RECURSIVE ApplyMap(_, _, _, _, _, _, _, _)
ApplyMap(cells, acc, f, applyto, noneval, well_ids, setdata, nout) ==
    IF cells = <<>> THEN acc
    ELSE LET sid == WellID(Head(cells))
             r == AppliedFunc(sid, acc.data[sid], f[sid], applyto, noneval, well_ids,
                              setdata, nout)
         IN IF r.err # "" THEN [acc EXCEPT !.err = r.err, !.data[sid] = r.data]
            ELSE ApplyMap(Tail(cells),
                          [acc EXCEPT !.data[sid] = r.data,
                                      !.result = Put(@, Head(cells), r.cell)],
                          f, applyto, noneval, well_ids, setdata, nout)

\* the index of the last occurrence of name n in outputs
OutputIndex(outputs, n) ==
    CHOOSE i \in 1..Len(outputs) :
        outputs[i] = n /\ \A j \in (i + 1)..Len(outputs) : outputs[j] # n

\* BasePlate.apply(func, outputs, applyto, noneval, well_ids, setdata): the
\* error raised, the registry extracted and the wells' data afterwards;
\* with several outputs x[i] is taken of every cell, which a scalar fails
PlateApplyCall(E, dat, f, outputs, applyto, noneval, well_ids, setdata, cells) ==
    LET nout == Len(outputs)
        m == ApplyMap(cells, [err |-> "", result |-> EmptyDict, data |-> dat],
                      f, applyto, noneval, well_ids, setdata, nout)
        out == [n \in Elems(outputs) |->
                  [pos \in PlateCells |->
                     m.result[pos].v[IF nout = 1 THEN 1 ELSE OutputIndex(outputs, n)]]]
    IN IF m.err # "" THEN [err |-> m.err, extracted |-> E, data |-> m.data]
       ELSE IF nout > 1 /\ \E pos \in PlateCells : ~ m.result[pos].seq
       THEN [err |-> "TypeError", extracted |-> E, data |-> m.data]
       ELSE [err |-> "", extracted |-> DictUpdate(E, out), data |-> m.data]

\* ------------------------------------------------------------------------
\* Actions on the plate
\* ------------------------------------------------------------------------
\* BasePlate.__init__(ID, shape, row_labels, col_labels, datafiles) with
\* the default parser 'name': the wells are made, kept in the grid wells and
\* in wells_d (coll_data) under their IDs, and the files are assigned
InitPlate ==
    /\ alive = TRUE
    /\ positions = EmptyDict
    /\ position = [k \in Keys |-> EmptyDict]
    /\ data = [k \in Keys |-> None]
    /\ meta = [k \in Keys |-> None]
    /\ metafile = [k \in Keys |-> None]
    /\ extracted = EmptyDict
    /\ self_ID = CollID
    /\ last = NoCall
    /\ \E files \in {<<>>, <<"f1", "f2">>} :
          LET made == _make_wells(PlateRows, PlateCols, 1,
                                  [wells |-> EmptyDict, wells_d |-> EmptyDict])
              r == assign_datafiles_to_wells(made.wells_d, made.wells, files,
                                             [k \in Keys |-> None],
                                             [given |-> FALSE, map |-> EmptyDict], "name")
          IN /\ r.err = ""
             /\ wells = made.wells
             /\ coll_data = made.wells_d
             /\ self_datafiles = files
             /\ datafile = r.datafile

\* the output names and the well ids a caller passes to BasePlate.apply

\* BasePlate.apply(func, outputs, applyto, noneval, well_ids, setdata)
PlateApply ==
    /\ alive
    /\ \E outputs \in { <<"a">>, <<"a", "b">> }, idsArg \in {"default", "given"},
          given \in {{}, {<<"A", "1">>}},
          args \in ApplyArgs :
       /\ idsArg = "default" => given = {}
       /\ LET well_ids == IF idsArg = "default" THEN DOMAIN coll_data ELSE given
              r == PlateApplyCall(extracted, data, datafile, outputs,
                                  ResolveApplyto(args.applyto), ResolveNoneval(args.noneval),
                                  well_ids, ResolveSetdata(args.setdata), PlateCellOrder)
          IN /\ extracted' = r.extracted
             /\ data' = r.data
             /\ last' = [NoCall EXCEPT !.op = "plate_apply", !.err = r.err,
                           !.outputs = outputs, !.ids = well_ids,
                           !.allids = (idsArg = "default"),
                           !.applyto = ResolveApplyto(args.applyto),
                           !.noneval = ResolveNoneval(args.noneval),
                           !.setdata = ResolveSetdata(args.setdata)]
    /\ UNCHANGED <<collVars, datafile, meta, metafile, self_ID, wells, self_datafiles>>

\* plate.assign_datafiles_to_wells(assignments, parser); the assignments a
\* caller passes map well IDs to files ('B1' is no well)
AssignDatafilesToWells ==
    /\ alive
    /\ \E given \in BOOLEAN,
          assignments \in { EmptyDict,
                            [k \in {<<"A", "1">>} |-> "f2"],
                            [k \in Keys |-> IF k = <<"A", "1">> THEN "f1" ELSE "f2"],
                            [k \in {<<"B", "1">>} |-> "f1"] },
          parser \in {"callable", "name", "number", "read", "bogus"} :
       /\ given => parser = "name" /\ assignments # EmptyDict
       /\ ~ given => assignments = EmptyDict
       /\ LET r == assign_datafiles_to_wells(coll_data, wells, self_datafiles, datafile,
                                             [given |-> given, map |-> assignments], parser)
          IN /\ datafile' = r.datafile
             /\ last' = [NoCall EXCEPT !.op = "assign_datafiles_to_wells", !.err = r.err,
                           !.parser = parser, !.defaults = ~ given,
                           !.results = r.assignments]
    /\ UNCHANGED <<collVars, data, meta, metafile, otherVars>>

\* the plate: setting the data of wells, applying a function to the wells
SpecPlate ==
    InitPlate /\ [][ PlateApply
              \/ SetData
              \/ AssignDatafilesToWells ]_vars

\* ------------------------------------------------------------------------
\* FCCollection.transform and FCCollection.gate
\* ------------------------------------------------------------------------
\* transform_frame(data, transform, ...) and gate(data): the new payload;
\* neither can work on a sample that has no data
transform_frame(d) ==
    IF d = None THEN [err |-> "TypeError", value |-> None]
    ELSE [err |-> "", value |-> "t(" \o d \o ")"]
gate(d) ==
    IF d = None THEN [err |-> "TypeError", value |-> None]
    ELSE [err |-> "", value |-> "g(" \o d \o ")"]

\* FCMeasurement.transform / FCMeasurement.gate on a sample with data d and
\* datafile f: data = self.get_data(), the new payload, then a copy of the
\* sample with set_data(data=newdata); the payload of the new sample
MeasurementDerive(kind, d, f) ==
    IF GetAttrFromFile("data", d, f, f).err # ""
    THEN [err |-> GetAttrFromFile("data", d, f, f).err, value |-> None]
    ELSE IF kind = "transform" THEN transform_frame(GetAttrFromFile("data", d, f, f).value)
    ELSE gate(GetAttrFromFile("data", d, f, f).value)

\* the loop  for k,v in new.iteritems(): new[k] = v.transform(...)  over the
\* deep copy new of the collection; acc.newdata holds the payloads of the
\* samples of new, acc.data the data of the source's samples
RECURSIVE DeriveLoop(_, _, _, _, _)
DeriveLoop(kind, D, order, files, acc) ==
    IF order = <<>> THEN acc
    ELSE LET k == Head(order)
             r == MeasurementDerive(kind, acc.newdata[k], files[D[k].ID])
         IN IF r.err # "" THEN [acc EXCEPT !.err = r.err]
            ELSE IF ~ IsInstance(D[k]) THEN [acc EXCEPT !.err = "TypeError"]
            ELSE DeriveLoop(kind, D, Tail(order), files,
                            [acc EXCEPT !.newdata[k] = r.value])

\* the accumulator of DeriveLoop before the first entry: new is a deep
\* copy, its samples have the payloads of the source's samples
DeriveStart(D, dat) == [err |-> "", newdata |-> [k \in DOMAIN D |-> dat[D[k].ID]]]

\* variant of DeriveCall: no copy is made, the samples of the source get
\* the new payloads
DeriveInPlace(kind, selfID, D, order, dat, files, ID) ==
    LET acc == DeriveLoop(kind, D, order, files, DeriveStart(D, dat))
    IN acc @@ [ID |-> IF acc.err # "" THEN selfID
                      ELSE IF ID = None THEN selfID \o "." \o kind \o "ed" ELSE ID,
               newID |-> selfID,
               data |-> [s \in DOMAIN dat |->
                           IF \E k \in DOMAIN D : D[k].ID = s
                           THEN acc.newdata[CHOOSE k \in DOMAIN D : D[k].ID = s]
                           ELSE dat[s]]]

\* FCCollection.transform(transform, ..., ID) / FCCollection.gate(gate, ID):
\* the error raised, self.ID afterwards, the ID and the payloads of the
\* collection returned (a copy made before self.ID is reassigned), the data
\* of the source's samples afterwards
DeriveCall(kind, selfID, D, order, dat, files, ID) ==
    LET acc == DeriveLoop(kind, D, order, files, DeriveStart(D, dat))
    IN acc @@ [ID |-> IF acc.err # "" THEN selfID
                      ELSE IF ID = None THEN selfID \o "." \o kind \o "ed" ELSE ID,
               newID |-> selfID,
               data |-> dat]

\* a flat collection of measurements, some with a data file
InitFC ==
    /\ alive = TRUE
    /\ coll_data \in { [k \in S |-> SampleObj(k)] : S \in SUBSET Keys }
    /\ positions = EmptyDict
    /\ position = [k \in Keys |-> EmptyDict]
    /\ data = [k \in Keys |-> None]
    /\ datafile \in [Keys -> SourceFiles \cup {None}]
    /\ meta = [k \in Keys |-> None]
    /\ metafile = [k \in Keys |-> None]
    /\ extracted = EmptyDict
    /\ self_ID = CollID
    /\ wells = EmptyDict
    /\ self_datafiles = <<>>
    /\ last = NoCall

\* the collection IDs on which transform and gate are called: the one
\* given at construction, a caller's choice, and one derived step
DerivableIDs == {CollID, "sel", CollID \o ".transformed", CollID \o ".gated"}

\* collection.transform(...) / collection.gate(...)
Derive(kind) ==
    /\ alive
    /\ self_ID \in DerivableIDs
    /\ \E ID \in {None, "sel"}, order \in Orders(DOMAIN coll_data) :
       LET r == DeriveCall(kind, self_ID, coll_data, order, data, datafile, ID)
       IN /\ self_ID' = r.ID
          /\ data' = r.data
          /\ last' = [NoCall EXCEPT !.op = kind, !.err = r.err, !.idarg = ID,
                        !.newID = r.newID, !.newdata = r.newdata]
    /\ UNCHANGED <<collVars, datafile, meta, metafile, extracted, wells, self_datafiles>>

\* the collection of measurements: setting data, transform, gate
SpecFC ==
    InitFC /\ [][ Derive("transform")
              \/ Derive("gate")
              \/ SetData ]_vars

\* the calls of the filter family
FilterOps == {"filter", "filter_by_key", "filter_by_attr", "filter_by_IDs",
              "filter_by_rows", "filter_by_cols"}

\* the value of the target t of a filter call for the member under key k,
\* in the state the call is made in
TargetValue(t, k) ==
    IF t.kind = "mapping" THEN t.map[k]
    ELSE IF t.kind = "samples" THEN ObjVal(coll_data[k])
    ELSE IF t.kind = "keys" THEN KeyVal(k)
    ELSE LET sid == coll_data[k].ID
         IN StrVal(IF data[sid] # None THEN data[sid]
                   ELSE IF datafile[sid] # None THEN FileData[datafile[sid]] ELSE None)

\* the predicate c raises on the value x / holds on the value x
RaisesOn(c, x) == x.t = "str" /\ x.v \in c.raises
HoldsOn(c, x) ==
    \/ c.all
    \/ x.t = "key" /\ x.v \in c.keys
    \/ x.t = "obj" /\ x.v.ID \in c.keys
    \/ x.t = "str" /\ x.v \in c.strs
    \/ x.t = "num" /\ x.v \in c.nums

\* a filter call whose arguments are as the claims take them: a predicate
\* function and a target that has a value for every member
ProperFilter(call) ==
    /\ call.criteria.callable
    /\ call.target.kind \in {"mapping", "samples", "keys", "data"}
    /\ call.target.kind = "mapping" => DOMAIN coll_data \subseteq DOMAIN call.target.map

\* C12: an error the caller's function raises during a collection apply or
\* a filter reaches the caller as it is and nothing is returned: the call
\* fails with the function's error exactly when the function was called on
\* a value it raises on
C12_CallerErrorsPropagate ==
    [][ /\ (last'.op = "collection_apply" /\ last'.applyto = "data") =>
             /\ (last'.err = "FuncError") <=> (\E s \in last'.calls : funcRaises(PayloadFor(s)))
             /\ last'.err = "FuncError" => last'.results = EmptyDict
        /\ (last'.op \in FilterOps /\ last'.target.kind \in {"mapping", "samples", "keys", "data"}) =>
             /\ (last'.err = "FuncError") <=>
                  (\E k \in last'.calls : RaisesOn(last'.criteria, TargetValue(last'.target, k)))
             /\ last'.err = "FuncError" => ~ last'.coll.made ]_vars

\* a filter on the samples' data whose predicate raised on the payload read
\* from a file
C12_Witness ==
    /\ last.op = "filter" /\ last.target.kind = "data"
    /\ last.err = "FuncError" /\ last.reads # {}

\* C13: filter with a predicate returns a new collection whose members are
\* exactly the entries of the source on whose target value the predicate
\* holds, and whose id is new_id, or the source id followed by '.filtered'
C13_FilterReturnsMatchingEntries ==
    [][ (/\ last'.op = "filter"
         /\ ProperFilter(last')
         /\ \A k \in DOMAIN coll_data : ~ RaisesOn(last'.criteria, TargetValue(last'.target, k))) =>
          /\ last'.err = "" /\ last'.coll.made
          /\ DOMAIN last'.coll.data =
               { k \in DOMAIN coll_data : HoldsOn(last'.criteria, TargetValue(last'.target, k)) }
          /\ \A k \in DOMAIN last'.coll.data : last'.coll.data[k] = coll_data[k]
          /\ last'.coll.ID = IF last'.idarg = None THEN CollID \o ".filtered" ELSE last'.idarg
      ]_vars

\* the position records of the samples, without the entries under the
\* collection IDs in ids
WithoutIDs(SP, ids) == [s \in DOMAIN SP |-> [c \in (DOMAIN SP[s]) \ ids |-> SP[s][c]]]

\* the IDs a call of the filter family can give to the collections it
\* builds (the chained call builds two)
NewIDs(call) ==
    LET id1 == IF call.idarg = None THEN CollID \o ".filtered" ELSE call.idarg
    IN IF call.op = "filter_twice" THEN {id1, id1 \o ".filtered"} ELSE {id1}

\* C14 as stated: a filter operation changes nothing of the source: its
\* members, its position index, and the state of every sample, the
\* sample's record of its positions included
C14_FilterLeavesSourceAndSamples ==
    [][ last'.op \in FilterOps =>
          /\ alive' = alive /\ coll_data' = coll_data /\ positions' = positions
          /\ data' = data /\ datafile' = datafile /\ meta' = meta /\ metafile' = metafile
          /\ position' = position ]_vars

\* C14 amended: a filter operation leaves the source's members and position
\* index and every sample's data, meta and files as they are; of a sample's
\* record of its positions it changes at most the entry under the ID of
\* the collection it builds
C14_FilterWritesOnlyNewPositionEntry ==
    [][ last'.op \in FilterOps \cup {"filter_twice"} =>
          /\ alive' = alive /\ coll_data' = coll_data /\ positions' = positions
          /\ data' = data /\ datafile' = datafile /\ meta' = meta /\ metafile' = metafile
          /\ WithoutIDs(position', NewIDs(last')) = WithoutIDs(position, NewIDs(last')) ]_vars

\* a filter of the ordered collection that returned a collection and wrote
\* the position in that collection into a sample that already has its
\* position in the source
C14_Witness ==
    /\ last.op \in FilterOps /\ last.err = "" /\ last.coll.made
    /\ \E s \in Keys : {CollID, last.coll.ID} \subseteq DOMAIN position[s]

\* C15: collection.filter(pred).filter(always true) succeeds and has the
\* members of collection.filter(pred)
C15_FilterAgainKeepsMembers ==
    [][ (/\ last'.op = "filter_twice"
         /\ ProperFilter(last')
         /\ \A k \in DOMAIN coll_data : ~ RaisesOn(last'.criteria, TargetValue(last'.target, k))) =>
          /\ last'.err = "" /\ last'.first.made /\ last'.coll.made
          /\ last'.coll.data = last'.first.data
          /\ DOMAIN last'.first.data =
               { k \in DOMAIN coll_data : HoldsOn(last'.criteria, TargetValue(last'.target, k)) }
      ]_vars

\* the position index P restricted to the members whose label along the
\* axis is one of labels
RestrictedIndex(P, D, axis, labels) ==
    [k \in { m \in DOMAIN D : P[m][axis] \in labels } |-> P[k]]

\* C16: filter_by_rows(rows) and filter_by_cols(cols) on an ordered
\* collection whose members all have a position return a new ordered
\* collection whose position index is the source's restricted to the
\* members with a row (column) label among the given ones
C16_AxisFilterRestrictsIndex ==
    [][ (/\ last'.op \in {"filter_by_rows", "filter_by_cols"}
         /\ DOMAIN coll_data \subseteq DOMAIN positions) =>
          /\ last'.err = "" /\ last'.coll.made
          /\ last'.coll.cls = OrderedClass
          /\ last'.coll.positions =
               RestrictedIndex(positions, coll_data,
                               IF last'.op = "filter_by_rows" THEN 1 ELSE 2,
                               IF last'.op = "filter_by_rows" THEN last'.criteria.strs
                               ELSE last'.criteria.nums) ]_vars

\* C17: from_files with an ID parser that is neither a mapping, a function,
\* 'name', 'number' nor 'read' fails with the configuration error
\* (ValueError) and no collection results
C17_UnknownParserFails ==
    [][ (last'.op = "from_files"
         /\ last'.parser \notin {"mapping", "callable", "name", "number", "read"}) =>
          /\ last'.err = "ValueError"
          /\ ~ alive'
          /\ coll_data' = coll_data /\ datafile' = datafile ]_vars

\* a from_files call with an unknown parser tag that failed
C17_Witness ==
    /\ last.op = "from_files" /\ last.parser = "bogus"
    /\ last.err = "ValueError" /\ ~ alive

\* the cell a Plate.apply call with output names outs is to leave for the
\* well at pos under the name outs[i]: the function's component for an
\* included well that has data, none_value for every other well
WellHasData(sid) == data[sid] # None \/ datafile[sid] # None
WellValue(sid) == IF data[sid] # None THEN func(data[sid]) ELSE func(read_data(datafile[sid]).value)
WellRaises(sid) ==
    funcRaises(IF data[sid] # None THEN data[sid] ELSE read_data(datafile[sid]).value)
ExpectedCell(call, pos, i) ==
    IF WellID(pos) \in call.ids /\ WellHasData(WellID(pos))
    THEN funcOutputs(WellValue(WellID(pos)), Len(call.outputs)).v[i]
    ELSE call.noneval
ExpectedTable(call, i) == [pos \in PlateCells |-> ExpectedCell(call, pos, i)]

\* a Plate.apply call on data in which the caller's function itself has
\* no reason to fail on any included well
ProperPlateApply(call) ==
    /\ call.op = "plate_apply"
    /\ call.applyto = "data"
    /\ \A sid \in call.ids : WellHasData(sid) => ~ WellRaises(sid)

\* C18: Plate.apply with outputs=['a','b'] and a function returning a pair
\* stores under extracted['a'] and extracted['b'] two tables of the plate's
\* grid shape: the cell of each included well holds the corresponding
\* component of the function's result for that well, the cell of every well
\* not included (or without data) holds none_value.
C18_PlateApplyStoresTwoTables ==
    [][ (ProperPlateApply(last') /\ last'.outputs = <<"a", "b">>) =>
          /\ last'.err = ""
          /\ {"a", "b"} \subseteq DOMAIN extracted'
          /\ extracted'["a"] = ExpectedTable(last', 1)
          /\ extracted'["b"] = ExpectedTable(last', 2) ]_vars

\* C19: across Plate.apply calls the extracted registry accumulates: after
\* a call with output names N, extracted holds for each name in N the table
\* of that call (replacing any earlier table of the same name), and every
\* entry under a name not in N is unchanged.
C19_ExtractedAccumulates ==
    [][ ProperPlateApply(last') =>
          /\ DOMAIN extracted' = DOMAIN extracted \cup Elems(last'.outputs)
          /\ \A i \in 1..Len(last'.outputs) :
                extracted'[last'.outputs[i]] = ExpectedTable(last', i)
          /\ \A n \in DOMAIN extracted \ Elems(last'.outputs) :
                extracted'[n] = extracted[n] ]_vars

\* what the flat collection's apply gives for the arguments of a call
FlatApply(call) ==
    CollectionApplyCall(coll_data, CHOOSE o \in Orders(call.ids) : TRUE, data, datafile,
                        call.applyto, call.noneval, call.setdata)

\* an apply call on the ordered collection whose flat apply returns and
\* whose processed IDs all have a position
ProperOrderedApply(call) ==
    /\ call.op = "ordered_apply"
    /\ FlatApply(call).err = ""
    /\ call.ids \subseteq DOMAIN positions

\* C20: OrderedCollection.apply with the table output format returns a
\* table with one row per row label and one column per column label, in
\* which the cell at the position of each processed ID holds that ID's
\* result and every other cell holds none_value; with the 'dict' format it
\* returns the same ID-to-result mapping as the flat collection's apply.
C20_TableHoldsResultsAtPositions ==
    [][ (ProperOrderedApply(last') /\ ~ last'.dropna) =>
          /\ last'.format = "DataFrame" =>
               /\ last'.err = "" /\ last'.returned = "table"
               /\ DOMAIN last'.table = Elems(row_labels) \X Elems(col_labels)
               /\ \A k \in last'.ids : last'.table[positions[k]] = FlatApply(last').results[k]
               /\ \A pos \in DOMAIN last'.table :
                     (\A k \in last'.ids : positions[k] # pos) => last'.table[pos] = last'.noneval
          /\ last'.format = "dict" =>
               /\ last'.err = "" /\ last'.returned = "dict"
               /\ last'.results = FlatApply(last').results ]_vars

\* a table was returned for one processed member, with its result in its
\* cell and the caller's none_value in the other cell
C20_Witness ==
    /\ last.op = "ordered_apply" /\ last.err = "" /\ last.returned = "table"
    /\ last.noneval = "zero" /\ last.ids # {}
    /\ \E k \in last.ids : last.table[positions[k]] = funcOnSample(coll_data[k].ID)
    /\ \E pos \in DOMAIN last.table : last.table[pos] = "zero"

\* C21: OrderedCollection.apply called with drop_empty (dropna) true
\* returns a table from which the rows and the columns that contain no
\* result are removed, while the members mapping and position index of the
\* collection are unchanged; with drop_empty false the table keeps the full
\* grid shape.
C21_DropEmptyTrimsTable ==
    [][ (ProperOrderedApply(last') /\ last'.format = "DataFrame") =>
          /\ last'.err = "" /\ last'.returned = "table"
          /\ coll_data' = coll_data /\ positions' = positions
          /\ IF last'.dropna
             THEN \A pos \in DOMAIN last'.table :
                     /\ \E k \in last'.ids : positions[k][1] = pos[1]
                     /\ \E k \in last'.ids : positions[k][2] = pos[2]
             ELSE DOMAIN last'.table = Elems(row_labels) \X Elems(col_labels) ]_vars

\* the payload a transform or gate call is to give the new sample made
\* from the source sample sid
DerivedPayload(kind, sid) ==
    MeasurementDerive(kind, data[sid], datafile[sid]).value

C23_PlateGridAndIndexAgree ==
    alive =>
       /\ DOMAIN wells = PlateCells
       /\ \A pos \in PlateCells : wells[pos].cls = SampleClass
       /\ Cardinality({ wells[pos] : pos \in PlateCells }) = PlateShape[1] * PlateShape[2]
       /\ DOMAIN coll_data = { WellID(pos) : pos \in PlateCells }
       /\ \A pos \in PlateCells : coll_data[WellID(pos)] = wells[pos]

\* a plate built without files, whose well 'A1' was then assigned a file
\* while 'I1' has none, after an apply call
C23_Witness ==
    /\ last.op = "plate_apply"
    /\ self_datafiles = <<>>
    /\ datafile[<<"A", "1">>] = "f2"
    /\ datafile[<<"I", "1">>] = None

\* C24: set_positions called with positions not given and a mapping as
\* parser, the mapping holding a position for every targeted ID and every
\* targeted ID being a member, assigns to each targeted ID the position the mapping holds for it: the call ends as
\* the call with that mapping, restricted to the targets, as positions
C24_MappingParserAssignsPositions ==
    [][ (/\ last'.op = "set_positions"
         /\ last'.target.kind = "mapping"
         /\ last'.ids \subseteq DOMAIN last'.target.map
         /\ last'.ids \subseteq DOMAIN coll_data)
        => \E order \in Orders(last'.ids) :
             LET r == SetPositionsChecked(order, [k \in last'.ids |-> last'.target.map[k]],
                                          positions, position, coll_data)
             IN /\ last'.err = r.err
                /\ positions' = r.P
                /\ position' = r.SP ]_vars

\* the files whose metadata holds the field '$SRC', and its value
HasSrc(f) == get_meta_fields(f, <<"$SRC">>)[[type |-> "str", text |-> "$SRC"]] # None
SrcOf(f) == get_meta_fields(f, <<"$SRC">>)[[type |-> "str", text |-> "$SRC"]]

\* C25: from_files with the 'read' parser gives every file the ID of its
\* embedded '$SRC' field when every file holds the field, and fails, making
\* no collection at all, when some file does not hold it
C25_ReadParserUsesEmbeddedID ==
    [][ (last'.op = "from_files" /\ last'.parser = "read")
        => IF \A i \in DOMAIN last'.datafiles : HasSrc(last'.datafiles[i])
           THEN /\ last'.err = ""
                /\ alive'
                /\ DOMAIN coll_data' = { SrcOf(last'.datafiles[i]) : i \in DOMAIN last'.datafiles }
                /\ \A i \in DOMAIN last'.datafiles :
                      datafile'[SrcOf(last'.datafiles[i])] = last'.datafiles[i]
           ELSE /\ last'.err # ""
                /\ UNCHANGED <<collVars, sampleVars>> ]_vars

\* C26: clear_sample_data (clear_sample_meta) sets the cached data (meta) to
\* absent for exactly the samples named in ids, all members when ids is
\* not given, and leaves the cached data (meta) of every other sample as
\* it was
C26_ClearTouchesOnlyNamedSamples ==
    [][ /\ (last'.op = "clear_sample_data"
             => data' = [s \in Keys |->
                          IF \E k \in last'.ids : coll_data[k].ID = s THEN None ELSE data[s]])
        /\ (last'.op = "clear_sample_meta"
             => meta' = [s \in Keys |->
                          IF \E k \in last'.ids : coll_data[k].ID = s THEN None ELSE meta[s]])
      ]_vars

====
